---- MODULE Spec2Model ----
(***************************************************************************)
(* Model of the ATmega328P register-level HAL (namespace m328p).           *)
(*                                                                         *)
(*  - USART0 baud-rate solver (m328p_USART0.h): the constexpr helpers      *)
(*    getUBRRValue / getDoubleSpeed and the two register writes of         *)
(*    USART0::init that use them.                                          *)
(*  - Atomic (m328p_Atomic.h): the scoped guard that saves and clears the  *)
(*    global interrupt flag and restores it on destruction.                *)
(*                                                                         *)
(* Arithmetic widths are those of avr-gcc for the ATmega328P: uint32_t is  *)
(* 32 bits, uint16_t and unsigned int are 16 bits, int is 16 bits.         *)
(* A uint32_t value is represented as a pair <<hi, lo>> of 16-bit halves   *)
(* because the model checker's integers are narrower than 2^32.            *)
(***************************************************************************)
EXTENDS Integers, Sequences, FiniteSets, TLC

(***************************************************************************)
(* 32-bit unsigned arithmetic on <<hi, lo>> pairs.                         *)
(***************************************************************************)

\* 2^16: number of values of a 16-bit half / of uint16_t / of unsigned int
Two16 == 65536

U32(hi, lo) == <<hi, lo>>

Zero32 == U32(0, 0)

\* all bits set: 2^32 - 1
Max32 == U32(Two16 - 1, Two16 - 1)

\* n is a natural below 2^31
FromNat(n) == U32(n \div Two16, n % Two16)

\* the low 16 bits of a uint32_t (conversion to uint16_t)
Low16(a) == a[2]

Lt32(a, b) == a[1] < b[1] \/ (a[1] = b[1] /\ a[2] < b[2])

Le32(a, b) == a = b \/ Lt32(a, b)

\* a + b modulo 2^32
Add32(a, b) ==
    LET lo == a[2] + b[2]
        hi == a[1] + b[1] + (lo \div Two16)
    IN  U32(hi % Two16, lo % Two16)

\* a - b modulo 2^32
Sub32(a, b) ==
    LET lo == a[2] - b[2]
        borrow == IF lo < 0 THEN 1 ELSE 0
        hi == a[1] - b[1] - borrow
    IN  U32((hi + Two16) % Two16, (lo + Two16) % Two16)

\* a * k modulo 2^32, for a small natural k (k < 2^15)
Mul32(a, k) ==
    LET lo == a[2] * k
        hi == a[1] * k + (lo \div Two16)
    IN  U32(hi % Two16, lo % Two16)

\* a >> 1, as a natural (always below 2^31)
Half32(a) == (a[1] \div 2) * Two16 + (a[1] % 2) * (Two16 \div 2) + (a[2] \div 2)

\* The quotient of a by b for b # 0.  A divisor with bit 31 set gives 0 or 1.
\* Otherwise, with a = 2h + l, h = q1 * b + r1: the quotient is 2 * q1, plus 1
\* when 2 * r1 + l >= b.
Quot32(a, b) ==
    IF b[1] >= Two16 \div 2
    THEN IF Lt32(a, b) THEN Zero32 ELSE FromNat(1)
    ELSE LET bn  == b[1] * Two16 + b[2]
             l   == a[2] % 2
             q1  == Half32(a) \div bn
             r1  == Half32(a) % bn
             bit == IF r1 + l >= bn - r1 THEN 1 ELSE 0
         IN  Add32(Mul32(FromNat(q1), 2), FromNat(bit))

\* a / b in uint32_t.  Division by zero is undefined behaviour in C++: the
\* build produces some 32-bit value z, which the caller supplies.
Div32(a, b, z) == IF b = Zero32 THEN z ELSE Quot32(a, b)

(***************************************************************************)
(* USART0: translation of the desired baud rate into UBRR and U2X.         *)
(* Every helper takes the value z that a division by zero produces.        *)
(***************************************************************************)

\* unsigned int arithmetic (16 bits): 16 * (ubrr + 1) and 8 * (ubrr + 1)
\* are computed in unsigned int, because uint16_t is unsigned int and the
\* literals are int
UIntMul(k, ubrr) == (k * ((ubrr + 1) % Two16)) % Two16

\* the rounding bias baudRate * 16 in place of baudRate * 8
getUBRRValueSingleSpeed_bias(clock, baudRate, z) ==
    Low16(Sub32(Div32(Add32(clock, Mul32(baudRate, 16)),
                      Mul32(baudRate, 16), z), FromNat(1)))

getUBRRValueSingleSpeed(clock, baudRate, z) ==
    Low16(Sub32(Div32(Add32(clock, Mul32(baudRate, 8)),
                      Mul32(baudRate, 16), z), FromNat(1)))

getUBRRValueDoubleSpeed(clock, baudRate, z) ==
    Low16(Sub32(Div32(Add32(clock, Mul32(baudRate, 8)),
                      Mul32(baudRate, 8), z), FromNat(1)))

getRealBaudRateSingleSpeed(clock, baudRate, z) ==
    Div32(clock,
          U32(0, UIntMul(16, getUBRRValueSingleSpeed(clock, baudRate, z))), z)

getRealBaudRateDoubleSpeed(clock, baudRate, z) ==
    Div32(clock,
          U32(0, UIntMul(8, getUBRRValueDoubleSpeed(clock, baudRate, z))), z)

getBaudRateErrorSingleSpeed(clock, baudRate, z) ==
    LET real == getRealBaudRateSingleSpeed(clock, baudRate, z)
    IN  IF Lt32(baudRate, real)
        THEN Sub32(Div32(Mul32(real, 1000), baudRate, z), FromNat(1000))
        ELSE Sub32(Div32(Mul32(baudRate, 1000), real, z), FromNat(1000))

getBaudRateErrorDoubleSpeed(clock, baudRate, z) ==
    LET real == getRealBaudRateDoubleSpeed(clock, baudRate, z)
    IN  IF Lt32(baudRate, real)
        THEN Sub32(Div32(Mul32(real, 1000), baudRate, z), FromNat(1000))
        ELSE Sub32(Div32(Mul32(baudRate, 1000), real, z), FromNat(1000))

\* the comparison <= in place of <
getDoubleSpeed_le(clock, baudRate, z) ==
    Le32(getBaudRateErrorDoubleSpeed(clock, baudRate, z),
         getBaudRateErrorSingleSpeed(clock, baudRate, z))

getDoubleSpeed(clock, baudRate, z) ==
    Lt32(getBaudRateErrorDoubleSpeed(clock, baudRate, z),
         getBaudRateErrorSingleSpeed(clock, baudRate, z))

getUBRRValue(clock, baudRate, z) ==
    IF getDoubleSpeed(clock, baudRate, z)
    THEN getUBRRValueDoubleSpeed(clock, baudRate, z)
    ELSE getUBRRValueSingleSpeed(clock, baudRate, z)

\* Some division evaluated by getUBRRValue / getDoubleSpeed has divisor 0:
\* baudRate * 16, baudRate * 8, 16 * (ubrr + 1), 8 * (ubrr + 1), and in the
\* error helpers baudRate (first branch) or the real baud rate (else branch).
DividesByZero(clock, baudRate, z) ==
    LET realS == getRealBaudRateSingleSpeed(clock, baudRate, z)
        realD == getRealBaudRateDoubleSpeed(clock, baudRate, z)
    IN  \/ Mul32(baudRate, 16) = Zero32
        \/ Mul32(baudRate, 8) = Zero32
        \/ UIntMul(16, getUBRRValueSingleSpeed(clock, baudRate, z)) = 0
        \/ UIntMul(8, getUBRRValueDoubleSpeed(clock, baudRate, z)) = 0
        \/ (IF Lt32(baudRate, realS) THEN baudRate ELSE realS) = Zero32
        \/ (IF Lt32(baudRate, realD) THEN baudRate ELSE realD) = Zero32

(***************************************************************************)
(* Byte-wide bit operations, for the 8-bit registers.                      *)
(***************************************************************************)

RECURSIVE BitAnd(_, _, _)
\* a & b on the low n bits
BitAnd(a, b, n) ==
    IF n = 0 THEN 0
    ELSE ((a % 2) * (b % 2)) + 2 * BitAnd(a \div 2, b \div 2, n - 1)

RECURSIVE BitOr(_, _, _)
\* a | b on the low n bits
BitOr(a, b, n) ==
    IF n = 0 THEN 0
    ELSE (IF a % 2 = 1 \/ b % 2 = 1 THEN 1 ELSE 0)
             + 2 * BitOr(a \div 2, b \div 2, n - 1)

BitAnd8(a, b) == BitAnd(a, b, 8)

BitOr8(a, b) == BitOr(a, b, 8)

\* _BV(SREG_I): the global interrupt enable bit is bit 7 of SREG
BV_SREG_I == 128

\* the I flag of a status register value, as 0 or 1
IFlag(sreg) == BitAnd8(sreg, BV_SREG_I) \div BV_SREG_I

(***************************************************************************)
(* Atomic: constructor, destructor, and the interrupt-flag instructions.   *)
(***************************************************************************)

\* the interrupts are not disabled
cli_nop(sreg) == sreg

\* cli(): clear the global interrupt flag
cli(sreg) == BitAnd8(sreg, 255 - BV_SREG_I)

\* sei(): set the global interrupt flag
sei(sreg) == BitOr8(sreg, BV_SREG_I)

\* the Z flag (bit 1 of SREG), as an example of a flag other than I
BV_SREG_Z == 2

\* an arithmetic instruction of the program changes the Z flag
alu(sreg) ==
    IF BitAnd8(sreg, BV_SREG_Z) = 0 THEN sreg + BV_SREG_Z ELSE sreg - BV_SREG_Z

\* the whole status register is saved
Atomic_m_SREG_whole(sreg) == sreg

\* the flag is read after it has been cleared
Atomic_m_SREG_afterCli(sreg) == BitAnd8(cli(sreg), BV_SREG_I)

\* member initialiser m_SREG(SREG::read() & _BV(SREG_I))
Atomic_m_SREG(sreg) == BitAnd8(sreg, BV_SREG_I)

\* the destructor enables interrupts whatever was saved
Atomic_restore_sei(sreg, m_SREG) == BitOr8(sreg, BV_SREG_I)

\* the value the destructor writes: SREG::read() | m_SREG
Atomic_restore(sreg, m_SREG) == BitOr8(sreg, m_SREG)

(***************************************************************************)
(* Register access layer (register_access.h): one bit and a group of       *)
(* adjacent bits of an 8-bit register.  Each operator maps the register    *)
(* content read to the content written back (or to the value returned).    *)
(***************************************************************************)

\* the bits first..last of a register
Mask(first, last) == 2^(last + 1) - 2^first

BitInRegister_read(reg, bit) == BitAnd8(reg, 2^bit) # 0

BitInRegister_set(reg, bit) == BitOr8(reg, 2^bit)

BitInRegister_clear(reg, bit) == BitAnd8(reg, 255 - 2^bit)

BitInRegister_write(reg, bit, value) ==
    IF value THEN BitInRegister_set(reg, bit) ELSE BitInRegister_clear(reg, bit)

BitGroupInRegister_read(reg, first, last) ==
    BitAnd8(reg, Mask(first, last)) \div 2^first

\* clears the bits first..last and ORs in the value shifted to first; the
\* result is stored into the 8-bit register
BitGroupInRegister_write(reg, first, last, value) ==
    BitOr8(BitAnd8(reg, 255 - Mask(first, last)), (value * 2^first) % 256)

\* conversion of an integer to bool
ToBool(x) == x # 0

(***************************************************************************)
(* Timer0, Timer1, Timer2: the waveform generation mode, a value split     *)
(* over the two control registers TCCRnA and TCCRnB.  regs maps register   *)
(* names to contents.                                                      *)
(***************************************************************************)
WGM00 == 0
WGM01 == 1
WGM02 == 3
WGM10 == 0
WGM11 == 1
WGM12 == 3
WGM13 == 4
WGM20 == 0
WGM21 == 1
WGM22 == 3

\* the first statement writes the third mode bit, in TCCR0B
Timer0_WGM_write_A_highBit(regs, v) ==
    [regs EXCEPT !["TCCR0B"] =
        BitInRegister_write(@, WGM02, ToBool(BitAnd8(v, 4)))]

\* first statement of Timer0::WGM::write
Timer0_WGM_write_A(regs, v) ==
    [regs EXCEPT !["TCCR0A"] =
        BitGroupInRegister_write(@, WGM00, WGM01, BitAnd8(v, 3))]

\* second statement of Timer0::WGM::write
Timer0_WGM_write_B(regs, v) ==
    [regs EXCEPT !["TCCR0B"] =
        BitInRegister_write(@, WGM02, ToBool(BitAnd8(v, 4)))]

\* the third mode bit is written without the conversion to bool: bit 0 of
\* the masked value decides
Timer0_WGM_write_bit0(regs, v) ==
    [Timer0_WGM_write_A(regs, v) EXCEPT !["TCCR0B"] =
        BitInRegister_write(@, WGM02, BitAnd8(v, 4) % 2 = 1)]

Timer0_WGM_write(regs, v) ==
    Timer0_WGM_write_B(Timer0_WGM_write_A(regs, v), v)

Timer0_WGM_read(regs) ==
    LET waveformGenerationMode ==
            BitGroupInRegister_read(regs["TCCR0A"], WGM00, WGM01)
    IN  IF BitInRegister_read(regs["TCCR0B"], WGM02)
        THEN BitOr8(waveformGenerationMode, 4)
        ELSE waveformGenerationMode

Timer2_WGM_write(regs, v) ==
    [regs EXCEPT
        !["TCCR2A"] = BitGroupInRegister_write(@, WGM20, WGM21, BitAnd8(v, 3)),
        !["TCCR2B"] = BitInRegister_write(@, WGM22, ToBool(BitAnd8(v, 4)))]

Timer2_WGM_read(regs) ==
    LET waveformGenerationMode ==
            BitGroupInRegister_read(regs["TCCR2A"], WGM20, WGM21)
    IN  IF BitInRegister_read(regs["TCCR2B"], WGM22)
        THEN BitOr8(waveformGenerationMode, 4)
        ELSE waveformGenerationMode

Timer1_WGM_write(regs, v) ==
    [regs EXCEPT
        !["TCCR1A"] = BitGroupInRegister_write(@, WGM10, WGM11, BitAnd8(v, 3)),
        !["TCCR1B"] = BitGroupInRegister_write(@, WGM12, WGM13,
                                               (BitAnd8(v, 3) * 4) % 256)]

Timer1_WGM_read(regs) ==
    LET waveformGenerationMode ==
            (BitGroupInRegister_read(regs["TCCR1B"], WGM12, WGM13) * 4) % 256
    IN  BitOr8(waveformGenerationMode,
               BitGroupInRegister_read(regs["TCCR1A"], WGM10, WGM11))

(***************************************************************************)
(* GPIOPin<port, pinIdx> and GPIOSubPort<port, firstPin, lastPin>, for the *)
(* port B (the ports C and D instantiate the same templates).              *)
(***************************************************************************)

GPIOPin_setAsInput(regs, pinIdx) ==
    [regs EXCEPT !["DDRB"] = BitInRegister_clear(@, pinIdx)]

GPIOPin_setAsOutput(regs, pinIdx) ==
    [regs EXCEPT !["DDRB"] = BitInRegister_set(@, pinIdx)]

GPIOPin_read(regs, pinIdx) == BitInRegister_read(regs["PINB"], pinIdx)

\* the port register is assigned the bit, without keeping the other pins
GPIOPin_write_assign(regs, pinIdx, value) ==
    [regs EXCEPT !["PORTB"] = IF value THEN 2^pinIdx ELSE 0]

GPIOPin_write(regs, pinIdx, value) ==
    [regs EXCEPT !["PORTB"] = BitInRegister_write(@, pinIdx, value)]

GPIOPin_high(regs, pinIdx) ==
    [regs EXCEPT !["PORTB"] = BitInRegister_set(@, pinIdx)]

GPIOPin_low(regs, pinIdx) ==
    [regs EXCEPT !["PORTB"] = BitInRegister_clear(@, pinIdx)]

GPIOSubPort_setAsInput(regs, firstPin, lastPin) ==
    [regs EXCEPT !["DDRB"] = BitGroupInRegister_write(@, firstPin, lastPin, 0)]

GPIOSubPort_setAsOutput(regs, firstPin, lastPin) ==
    [regs EXCEPT !["DDRB"] =
        BitGroupInRegister_write(@, firstPin, lastPin, 255)]

GPIOSubPort_read(regs, firstPin, lastPin) ==
    BitGroupInRegister_read(regs["PINB"], firstPin, lastPin)

GPIOSubPort_write(regs, firstPin, lastPin, value) ==
    [regs EXCEPT !["PORTB"] =
        BitGroupInRegister_write(@, firstPin, lastPin, value)]

(***************************************************************************)
(* USART0: the fields of the frame format register UCSR0C.                 *)
(***************************************************************************)
UMSEL00 == 6
UMSEL01 == 7
UPM00 == 4
UPM01 == 5
USBS0 == 3
UCSZ00 == 1
UCSZ01 == 2
UCPOL0 == 0

\* the typedefs UMSEL, UPM, USBS, UCSZ, UCPOL: first and last bit
UCSR0C_Fields ==
    [UMSEL |-> <<UMSEL00, UMSEL01>>, UPM |-> <<UPM00, UPM01>>,
     USBS |-> <<USBS0, USBS0>>, UCSZ |-> <<UCSZ00, UCSZ01>>,
     UCPOL |-> <<UCPOL0, UCPOL0>>]

\* the value is ORed into the register, the old field content stays
USART0_field_write_or(regs, field, value) ==
    [regs EXCEPT !["UCSR0C"] =
        BitOr8(@, (value * 2^(UCSR0C_Fields[field][1])) % 256)]

\* UMSEL::write(value), UPM::write(value), ...
USART0_field_write(regs, field, value) ==
    [regs EXCEPT !["UCSR0C"] =
        BitGroupInRegister_write(@, UCSR0C_Fields[field][1],
                                 UCSR0C_Fields[field][2], value)]

\* UMSEL::read(), UPM::read(), ...
USART0_field_read(regs, field) ==
    BitGroupInRegister_read(regs["UCSR0C"], UCSR0C_Fields[field][1],
                            UCSR0C_Fields[field][2])

(***************************************************************************)
(* USART0: the interrupt enable bits of UCSR0B.                            *)
(***************************************************************************)
RXCIE0 == 7
TXCIE0 == 6
UDRIE0 == 5

\* the bit is cleared instead of set
USART0_enableUDREInterrupt_clear(regs) ==
    [regs EXCEPT !["UCSR0B"] = BitInRegister_clear(@, UDRIE0)]

USART0_enableUDREInterrupt(regs) ==
    [regs EXCEPT !["UCSR0B"] = BitInRegister_set(@, UDRIE0)]

USART0_disableUDREInterrupt(regs) ==
    [regs EXCEPT !["UCSR0B"] = BitInRegister_clear(@, UDRIE0)]

USART0_startTransmission(regs) == USART0_enableUDREInterrupt(regs)

USART0_stopTransmission(regs) == USART0_disableUDREInterrupt(regs)

\* an interrupt handler of USART0 (a member function, defined by the
\* application) writes one of the interrupt enable bits
USART0_handler_write(regs, bit, value) ==
    [regs EXCEPT !["UCSR0B"] = BitInRegister_write(@, bit, value)]

(***************************************************************************)
(* ADConverter: channel selection (ADMUX) and start of a conversion        *)
(* (ADCSRA).                                                               *)
(***************************************************************************)
MUX0 == 0
MUX3 == 3
ADSC == 6

\* ADMUX is assigned the channel, without keeping REFS and ADLAR
ADConverter_selectChannel_assign(regs, channelSelection) ==
    [regs EXCEPT !["ADMUX"] = channelSelection]

ADConverter_selectChannel(regs, channelSelection) ==
    [regs EXCEPT !["ADMUX"] =
        BitGroupInRegister_write(@, MUX0, MUX3, channelSelection)]

ADConverter_startConversion(regs) ==
    [regs EXCEPT !["ADCSRA"] = BitInRegister_set(@, ADSC)]

\* the condition of the loop in ADConverter::wait
ADConverter_wait_busy(regs) == BitInRegister_read(regs["ADCSRA"], ADSC)

\* Pin<t_channelIdx>::select
ADConverter_Pin_select(regs, t_channelIdx) ==
    ADConverter_selectChannel(regs, t_channelIdx)

\* the converter finishes a conversion: the hardware clears ADSC
ADC_conversionComplete(regs) ==
    [regs EXCEPT !["ADCSRA"] = BitInRegister_clear(@, ADSC)]

(***************************************************************************)
(* SPI: the clock rate, a value split over SPCR and SPSR, and the          *)
(* interrupt flag SPIF, which the hardware sets when a transfer is complete *)
(* and clears when SPDR is accessed after SPSR was read with SPIF set.     *)
(***************************************************************************)
SPR0 == 0
SPR1 == 1
SPI2X == 0
SPIF == 7

MSTR == 4
PORTB2 == 2
PORTB3 == 3
PORTB4 == 4
PORTB5 == 5

\* m_SPI2X is taken from bit 0 of the enumerator
SPI_ClockRate_Bits_write_SPI2X_bit0(regs, clockRate) ==
    [regs EXCEPT !["SPSR"] =
         BitInRegister_write(@, SPI2X, ToBool(BitAnd8(clockRate, 1)))]

\* ClockRate_Bits::write, first statement: m_SPR, the two low bits of the
\* enumerator, goes to SPR0..SPR1 of SPCR
SPI_ClockRate_Bits_write_SPR(regs, clockRate) ==
    [regs EXCEPT !["SPCR"] =
         BitGroupInRegister_write(@, SPR0, SPR1, BitAnd8(clockRate, 3))]

\* ClockRate_Bits::write, second statement: m_SPI2X, bit 2 of the
\* enumerator, goes to SPI2X of SPSR
SPI_ClockRate_Bits_write_SPI2X(regs, clockRate) ==
    [regs EXCEPT !["SPSR"] =
         BitInRegister_write(@, SPI2X, ToBool(BitAnd8(clockRate, 4)))]

\* the condition of the loop in SPI::wait
SPI_wait_busy(regs) == ~BitInRegister_read(regs["SPSR"], SPIF)

\* SPSR is cleared by every access of SPDR
SPI_SPDR_access_always(regs, armed) ==
    [regs EXCEPT !["SPSR"] = BitInRegister_clear(@, SPIF)]

\* an access of SPDR: it clears SPIF when SPSR was read with SPIF set before
SPI_SPDR_access(regs, armed) ==
    IF armed THEN [regs EXCEPT !["SPSR"] = BitInRegister_clear(@, SPIF)]
             ELSE regs

\* SPI::initSlaveMode up to MSTR_Bit::write(Mode::SLAVE): SS, SCK and MOSI
\* are inputs, MISO is an output driven low, the master bit is cleared
SPI_initSlaveMode_setup(regs) ==
    LET ss   == GPIOPin_setAsInput(regs, PORTB2)
        sck  == GPIOPin_setAsInput(ss, PORTB5)
        mosi == GPIOPin_setAsInput(sck, PORTB3)
        miso == GPIOPin_low(GPIOPin_setAsOutput(mosi, PORTB4), PORTB4)
    IN  [miso EXCEPT !["SPCR"] = BitGroupInRegister_write(@, MSTR, MSTR, 0)]

\* SPI::transmit
SPI_transmit(regs, armed, data) ==
    [SPI_SPDR_access(regs, armed) EXCEPT !["SPDR"] = data]

\* a transfer is complete: the hardware sets SPIF, SPDR holds the byte
\* received
SPI_transferComplete(regs, received) ==
    [regs EXCEPT !["SPSR"] = BitInRegister_set(@, SPIF),
                 !["SPDR"] = received]

(***************************************************************************)
(* GPIO on a port given by name: GPIORegisterAccess<t_port> names the      *)
(* three registers of the port.                                            *)
(***************************************************************************)
GPIORegisterAccess ==
    [B |-> [PORT |-> "PORTB", PIN |-> "PINB", DDR |-> "DDRB"],
     C |-> [PORT |-> "PORTC", PIN |-> "PINC", DDR |-> "DDRC"],
     D |-> [PORT |-> "PORTD", PIN |-> "PIND", DDR |-> "DDRD"]]

\* GPIOPin<t_port, t_pinIdx>
GPIOPinAt_setAsInput(regs, t_port, t_pinIdx) ==
    [regs EXCEPT ![GPIORegisterAccess[t_port].DDR] =
         BitInRegister_clear(@, t_pinIdx)]

GPIOPinAt_setAsOutput(regs, t_port, t_pinIdx) ==
    [regs EXCEPT ![GPIORegisterAccess[t_port].DDR] =
         BitInRegister_set(@, t_pinIdx)]

GPIOPinAt_read(regs, t_port, t_pinIdx) ==
    BitInRegister_read(regs[GPIORegisterAccess[t_port].PIN], t_pinIdx)

\* the port register is assigned the bit, without keeping the other pins
GPIOPinAt_write_assign(regs, t_port, t_pinIdx, value) ==
    [regs EXCEPT ![GPIORegisterAccess[t_port].PORT] =
         IF value THEN 2^t_pinIdx ELSE 0]

GPIOPinAt_write(regs, t_port, t_pinIdx, value) ==
    [regs EXCEPT ![GPIORegisterAccess[t_port].PORT] =
         BitInRegister_write(@, t_pinIdx, value)]

GPIOPinAt_low(regs, t_port, t_pinIdx) ==
    [regs EXCEPT ![GPIORegisterAccess[t_port].PORT] =
         BitInRegister_clear(@, t_pinIdx)]

\* GPIOSubPort<t_port, t_firstPin, t_lastPin>
GPIOSubPortAt_setAsInput(regs, t_port, t_firstPin, t_lastPin) ==
    [regs EXCEPT ![GPIORegisterAccess[t_port].DDR] =
         BitGroupInRegister_write(@, t_firstPin, t_lastPin, 0)]

GPIOSubPortAt_setAsOutput(regs, t_port, t_firstPin, t_lastPin) ==
    [regs EXCEPT ![GPIORegisterAccess[t_port].DDR] =
         BitGroupInRegister_write(@, t_firstPin, t_lastPin, 255)]

GPIOSubPortAt_read(regs, t_port, t_firstPin, t_lastPin) ==
    BitGroupInRegister_read(regs[GPIORegisterAccess[t_port].PIN],
                            t_firstPin, t_lastPin)

\* the port register is assigned the shifted value, without keeping the
\* other pins
GPIOSubPortAt_write_assign(regs, t_port, t_firstPin, t_lastPin, value) ==
    [regs EXCEPT ![GPIORegisterAccess[t_port].PORT] =
         (value * 2^t_firstPin) % 256]

GPIOSubPortAt_write(regs, t_port, t_firstPin, t_lastPin, value) ==
    [regs EXCEPT ![GPIORegisterAccess[t_port].PORT] =
         BitGroupInRegister_write(@, t_firstPin, t_lastPin, value)]

\* GPIOPort<t_port>
GPIOPort_setAsInput(regs, t_port) ==
    [regs EXCEPT ![GPIORegisterAccess[t_port].DDR] = 0]

GPIOPort_setAsOutput(regs, t_port) ==
    [regs EXCEPT ![GPIORegisterAccess[t_port].DDR] = 255]

GPIOPort_read(regs, t_port) == regs[GPIORegisterAccess[t_port].PIN]

GPIOPort_write(regs, t_port, value) ==
    [regs EXCEPT ![GPIORegisterAccess[t_port].PORT] = value]

(***************************************************************************)
(* External interrupts INT0 and INT1: sense control in EICRA, enable bit   *)
(* in EIMSK, the pin in port D.                                            *)
(***************************************************************************)
ISC00 == 0
ISC01 == 1
ISC10 == 2
ISC11 == 3
INT0 == 0
INT1 == 1
Int0_Pin == 2
Int1_Pin == 3

Int0_init(regs, interruptSenseControl, enable) ==
    LET pin == GPIOPinAt_setAsInput(regs, "D", Int0_Pin)
        isc == [pin EXCEPT !["EICRA"] =
                    BitGroupInRegister_write(@, ISC00, ISC01,
                                             interruptSenseControl)]
    IN  [isc EXCEPT !["EIMSK"] = BitInRegister_write(@, INT0, enable)]

Int0_enableInterrupt(regs) ==
    [regs EXCEPT !["EIMSK"] = BitInRegister_set(@, INT0)]

Int0_disableInterrupt(regs) ==
    [regs EXCEPT !["EIMSK"] = BitInRegister_clear(@, INT0)]

\* Int1 keeps its sense control in the field of Int0
Int1_init_ISC0(regs, interruptSenseControl, enable) ==
    LET pin == GPIOPinAt_setAsInput(regs, "D", Int1_Pin)
        isc == [pin EXCEPT !["EICRA"] =
                    BitGroupInRegister_write(@, ISC00, ISC01,
                                             interruptSenseControl)]
    IN  [isc EXCEPT !["EIMSK"] = BitInRegister_write(@, INT1, enable)]

Int1_init(regs, interruptSenseControl, enable) ==
    LET pin == GPIOPinAt_setAsInput(regs, "D", Int1_Pin)
        isc == [pin EXCEPT !["EICRA"] =
                    BitGroupInRegister_write(@, ISC10, ISC11,
                                             interruptSenseControl)]
    IN  [isc EXCEPT !["EIMSK"] = BitInRegister_write(@, INT1, enable)]

Int1_enableInterrupt(regs) ==
    [regs EXCEPT !["EIMSK"] = BitInRegister_set(@, INT1)]

Int1_disableInterrupt(regs) ==
    [regs EXCEPT !["EIMSK"] = BitInRegister_clear(@, INT1)]

\* a method of Int0 or Int1, by name
Int_method(op, regs, interruptSenseControl, enable) ==
    CASE op = "Int0::init" -> Int0_init(regs, interruptSenseControl, enable)
      [] op = "Int1::init" -> Int1_init(regs, interruptSenseControl, enable)
      [] op = "Int0::enableInterrupt" -> Int0_enableInterrupt(regs)
      [] op = "Int0::disableInterrupt" -> Int0_disableInterrupt(regs)
      [] op = "Int1::enableInterrupt" -> Int1_enableInterrupt(regs)
      [] op = "Int1::disableInterrupt" -> Int1_disableInterrupt(regs)

(***************************************************************************)
(* EEPROM: a buffer of capacity() bytes in EEMEM, accessed by position.    *)
(* The buffer is held as the bytes written so far (by offset) and the      *)
(* content of the cells never written (fill).                              *)
(***************************************************************************)
capacity == 1024

\* getBufferPointer(offset): the offset into auiBuffer of the pointer
\* returned, offset & (capacity() - 1)
getBufferPointer(offset) == offset % capacity

\* the byte of the buffer at an offset
EEPROM_content(buffer, offset) ==
    IF offset \in DOMAIN buffer.bytes THEN buffer.bytes[offset]
                                       ELSE buffer.fill

\* the cells first..last are written with data; cells past the end of the
\* buffer lie outside the object: the bytes go to other EEMEM data, or, when
\* the address wraps at the end of the EEPROM, to the start of the buffer
EEPROM_store(buffer, first, last, data, wraps) ==
    LET inside == {c \in first .. last : c < capacity}
        wrapped == IF wraps
                   THEN {c - capacity : c \in {d \in first .. last :
                                                   d >= capacity}}
                   ELSE {}
        cells == inside \cup wrapped
    IN  [buffer EXCEPT !.bytes =
            [o \in (DOMAIN buffer.bytes) \cup cells |->
                IF o \in cells THEN data ELSE buffer.bytes[o]]]

(***************************************************************************)
(* Inputs of the model.                                                    *)
(***************************************************************************)

\* CPU clocks of 1 MHz .. MaxClockMHz MHz are drawn
MaxClockMHz == 16

ClockRates ==
    {FromNat(k * 1000000) : k \in 1..MaxClockMHz}
        \cup {FromNat(65536), Mul32(FromNat(4000000), 1000)}

BaudRates ==
    {FromNat(b) : b \in {0, 1, 244, 2400, 4800, 9600, 14400, 19200, 28800,
                         38400, 57600, 76800, 115200, 230400, 250000,
                         500000, 1000000, 5000000}}

\* values a division by zero may leave in the result
DivZeroResults == {Zero32, FromNat(1), FromNat(1000), Max32}

\* Atomic objects alive at the same time (nested scopes)
MaxDepth == 3

\* operations of one run of the program
MaxOps == 6

\* status register contents at the start of a run: I and Z in all combinations
SREGInit == {0, 2, 128, 130}

\* the 8-bit I/O registers of the model
Registers == {"TCCR0A", "TCCR0B", "TCCR1A", "TCCR1B", "TCCR2A", "TCCR2B",
              "DDRB", "PORTB", "PINB", "UCSR0B", "UCSR0C", "ADMUX", "ADCSRA",
              "SPCR", "SPSR", "SPDR", "EICRA", "EIMSK",
              "DDRC", "PORTC", "PINC", "DDRD", "PORTD", "PIND"}

\* the second control register of each timer
SecondRegisters == {"TCCR0B", "TCCR1B", "TCCR2B"}

Bytes == 0 .. 255

\* contents of the second control registers at the start
FillBytes == {0, 255}

\* pin indices of a port
Pins == 0 .. 7

\* template arguments <firstPin, lastPin> of the sub-ports of the model
SubPorts == {<<0, 7>>, <<0, 1>>, <<0, 3>>, <<2, 5>>, <<4, 7>>, <<6, 6>>}

\* arguments of GPIOSubPort::write
SubPortValues == {0, 1, 3, 10, 15, 165, 255}

\* the values representable in a field of bits first..last
Representable(first, last) == 0 .. 2^(last - first + 1) - 1

\* values of the enumerations WaveformGenerationMode, cast to the underlying
\* arguments of Timer1::init: NONE and PRESCALER_1024, DISCONNECTED and
\* CLEAR, DISCONNECTED and SET
ClockSelects == {0, 5}
CompareOutputModesA == {0, 2}
CompareOutputModesB == {0, 3}

\* the four arguments of Timer1::init as one number, and its parts
Timer1InitArg(wgm, cs, coma, comb) == wgm + 16 * cs + 128 * coma + 512 * comb
InitArgWGM(arg) == arg % 16
InitArgCS(arg) == (arg \div 16) % 8
InitArgCOMA(arg) == (arg \div 128) % 4
InitArgCOMB(arg) == (arg \div 512) % 4

\* type (Timer1: 4 bits, Timer0 and Timer2: 3 bits)
Timer1Modes == 0 .. 15
Timer0Modes == 0 .. 7

\* the bits of UCSR0B an interrupt handler writes
HandlerBits == {RXCIE0, TXCIE0, UDRIE0}

\* contents of UCSR0B at the start: reset value, receiver and transmitter
\* enabled with the receive interrupt, all bits set
UCSR0BInit == {0, 152, 255}

\* the enumerators of SPI::ClockRate
SPIClockRates == 0 .. 6

\* SPCR at the start: cleared, enabled as master with the slowest clock, all
\* bits set
SPCRInit == {0, 83, 255}

\* SPSR at the start: SPI2X clear or set (SPIF and WCOL are set by the
\* hardware only)
SPSRInit == {0, 1}

\* bytes sent and received over SPI
SPIBytes == {0, 165}

\* enum InterruptSenseControl of Int0 and Int1
InterruptSenseControls == 0 .. 3

\* the methods of Int0 and of Int1
Int0Methods == {"Int0::init", "Int0::enableInterrupt", "Int0::disableInterrupt"}
Int1Methods == {"Int1::init", "Int1::enableInterrupt", "Int1::disableInterrupt"}

\* contents of EICRA, EIMSK and DDRD at the start
IntInitBytes == {0, 6, 9, 255}

\* the calls of Int0 and Int1 methods in one run
MaxIntCalls == 2

\* InterruptSenseControl::RISING_EDGE, the default argument of Int1::init
RISING_EDGE == 3

\* OutputPin of test/Int1: pin 0 of port D
Int1Test_OutputPin == 0

\* invocations of the INT1 handler in one run
MaxInvocations == 3

\* levels of the pins of port D and port C that test/GPIO reads
PINDInputs == {0, 165}
PINCInputs == {0, 40, 215}

\* arguments of the EEPROM methods: pos, data, nofBytes
Positions == {0, 1023, 1025, 65535}
EEBytes == {0, 165}
NofBytes == {1, 2, 1024}

\* the EEPROM accesses of one run
MaxAccesses == 2

\* the polls of one wait() that are counted
MaxPolls == 3

\* the interrupt handlers executed in one run
MaxIrqs == 1

\* the methods of the main program that are interrupted: a method name with
\* its argument (the waveform generation mode, 0 for the other methods)
MainCalls ==
    {<<"USART0::startTransmission", 0>>, <<"USART0::stopTransmission", 0>>}
    \cup {<<"Timer0::WGM::write", v>> : v \in Timer0Modes}

\* template argument t_channelIdx of ADConverter::Pin
Channels == 0 .. 8

\* ADMUX after ADConverter::init: ADLAR set, reference AREF, AVCC or INTERNAL
ADMUXInit == {32, 96, 224}

\* ADCSRA after ADConverter::init: ADEN set, one of the eight prescalers
ADCSRAInit == {128 + ps : ps \in 0 .. 7}

(***************************************************************************)
(* State.                                                                  *)
(***************************************************************************)
VARIABLES
    cpuClock,       \* USART0::init argument cpuClock (uint32_t)
    baudRate,       \* USART0::init argument baudRate (uint32_t)
    usartInit,      \* USART0::init has returned
    UBRR0,          \* USART baud rate register (16 bits)
    U2X0,           \* bit U2X0 of UCSR0A
    divZero,        \* the last USART0::init divided by zero
    divZeroResult,  \* the value that division by zero produced
    SREG,           \* AVR status register (8 bits, bit 7 = I)
    atomics,        \* the live Atomic objects, innermost first; each holds
                    \* m_SREG and (history) the SREG value before construction
    SREG0,          \* history: SREG at the start of the run
    history,        \* history: the operations executed so far
    lastBefore,     \* history: SREG before the construction of the Atomic
                    \* object destroyed last
    io,             \* the contents of the I/O registers, by register name
    call,           \* history: the last driver method that wrote a register
                    \* (op, its arguments, the registers before it) and the
                    \* read method called after it (rd, result)
    pc,             \* position of the main program in the method it executes
                    \* (at) and the index of the register access (k)
    tmp,            \* the register content the main program has read
    irqs,           \* number of interrupt handlers executed
    isr,            \* history: the last register write of a handler (bit,
                    \* value) and the position of the main program then
    seen,           \* history: the last waveform generation mode a handler
                    \* read and the position of the main program then
    shadow,         \* history: the registers as they are if every method
                    \* and handler runs without interruption
    auiBuffer,      \* EEPROM::getBufferPointer: the bytes written to the
                    \* buffer in EEMEM, by offset
    eeAccess,       \* history: the last EEPROM access (method, arguments,
                    \* first and last buffer offset it touched, result, for
                    \* a read the byte written to the position just before,
                    \* the number of accesses so far)
    spi,            \* SPI hardware: SPSR was read with SPIF set (the first
                    \* half of the flag-clearing sequence)
    waited,         \* history: the wait() that returned last, the number of
                    \* polls it made and the status bit its last poll read
    pinState,       \* static bool pinState of the INT1 handler of test/Int1
    sampled,        \* history: the inputs the statements of the loop of
                    \* test/GPIO read in the current iteration
    lastRead        \* history: the last read() of a register since the last
                    \* write: the register and the value returned; n changes
                    \* with every read()

solverVars == <<cpuClock, baudRate, usartInit, UBRR0, U2X0, divZero,
                divZeroResult>>

atomicVars == <<SREG, atomics, SREG0, history, lastBefore>>

irqVars == <<pc, tmp, irqs, isr, seen, shadow>>

deviceVars == <<io, call, irqVars>>

progVars == <<auiBuffer, eeAccess, spi, waited, pinState, sampled, lastRead>>

vars == <<solverVars, atomicVars, deviceVars, progVars>>

(***************************************************************************)
(* USART0::init, the baud-rate part.                                       *)
(***************************************************************************)

\* before USART0::init: the registers hold their reset values
SolverReset ==
    /\ usartInit = FALSE
    /\ UBRR0 = 0
    /\ U2X0 = FALSE
    /\ divZero = FALSE
    /\ divZeroResult = Zero32

\* UBRR::write(getUBRRValue(cpuClock, baudRate)) and
\* U2X_Bit::write(getDoubleSpeed(cpuClock, baudRate)).  z is the value a
\* division by zero produces in this build; it is recorded only when a
\* division by zero happens.
USART0_init(z) ==
    /\ DividesByZero(cpuClock, baudRate, z) \/ z = Zero32
    /\ usartInit' = TRUE
    /\ UBRR0' = getUBRRValue(cpuClock, baudRate, z)
    /\ U2X0' = getDoubleSpeed(cpuClock, baudRate, z)
    /\ divZero' = DividesByZero(cpuClock, baudRate, z)
    /\ divZeroResult' = z
    /\ UNCHANGED <<cpuClock, baudRate>>
    /\ UNCHANGED <<atomicVars, deviceVars, progVars>>

(***************************************************************************)
(* Atomic sections.                                                        *)
(***************************************************************************)

AtomicReset ==
    /\ SREG \in SREGInit
    /\ SREG0 = SREG
    /\ atomics = <<>>
    /\ history = <<>>
    /\ lastBefore = 0

\* Atomic::Atomic(): store the I flag, then cli()
Atomic_ctor ==
    /\ Len(history) < MaxOps
    /\ Len(atomics) < MaxDepth
    /\ atomics' = <<[m_SREG |-> Atomic_m_SREG(SREG), before |-> SREG]>>
                      \o atomics
    /\ SREG' = cli(SREG)
    /\ history' = Append(history, "ctor")
    /\ UNCHANGED <<SREG0, lastBefore, solverVars, deviceVars, progVars>>

\* Atomic::~Atomic() of the innermost object (scopes end in LIFO order)
Atomic_dtor ==
    /\ Len(history) < MaxOps
    /\ atomics # <<>>
    /\ SREG' = Atomic_restore(SREG, Head(atomics).m_SREG)
    /\ atomics' = Tail(atomics)
    /\ history' = Append(history, "dtor")
    /\ lastBefore' = Head(atomics).before
    /\ UNCHANGED <<SREG0, solverVars, deviceVars, progVars>>

\* program code executes sei(), inside or outside an atomic section
Code_sei ==
    /\ Len(history) < MaxOps
    /\ SREG' = sei(SREG)
    /\ history' = Append(history, "sei")
    /\ UNCHANGED <<atomics, SREG0, lastBefore, solverVars, deviceVars,
                   progVars>>

\* program code executes cli(), inside or outside an atomic section
Code_cli ==
    /\ Len(history) < MaxOps
    /\ SREG' = cli(SREG)
    /\ history' = Append(history, "cli")
    /\ UNCHANGED <<atomics, SREG0, lastBefore, solverVars, deviceVars,
                   progVars>>

\* bit positions of the clock select and compare output mode fields
CS10 == 0
CS12 == 2
COM1B0 == 4
COM1B1 == 5
COM1A0 == 6
COM1A1 == 7

\* Timer1::init: the mode, the clock source and the two compare output modes
Timer1_init(regs, waveformGenerationMode, clockSelect, comA, comB) ==
    LET wgm  == Timer1_WGM_write(regs, waveformGenerationMode)
        cs   == [wgm EXCEPT !["TCCR1B"] =
                     BitGroupInRegister_write(@, CS10, CS12, clockSelect)]
        coma == [cs EXCEPT !["TCCR1A"] =
                     BitGroupInRegister_write(@, COM1A0, COM1A1, comA)]
    IN  [coma EXCEPT !["TCCR1A"] =
             BitGroupInRegister_write(@, COM1B0, COM1B1, comB)]

\* program code executes an arithmetic instruction that changes a flag
\* other than I
Code_alu ==
    /\ Len(history) < MaxOps
    /\ SREG' = alu(SREG)
    /\ history' = Append(history, "alu")
    /\ UNCHANGED <<atomics, SREG0, lastBefore, solverVars, deviceVars,
                   progVars>>

(***************************************************************************)
(* Driver methods on the registers.  A method that writes is recorded in   *)
(* call together with the register contents before it; a method that reads *)
(* records its name and its result.                                        *)
(***************************************************************************)

NoCall == [op |-> "none", first |-> 0, last |-> 0, arg |-> 0, flag |-> FALSE,
           before |-> [r \in Registers |-> 0],
           rd |-> "none", result |-> 0, bit |-> FALSE]

Idle == [at |-> "idle", k |-> 0]

\* no handler has run
IrqReset ==
    /\ pc = Idle
    /\ tmp = 0
    /\ irqs = 0
    /\ isr = [op |-> "none", bit |-> 0, value |-> FALSE, at |-> Idle]
    /\ seen = [op |-> "none", mode |-> 0, at |-> Idle]
    /\ shadow = io

\* after reset every register of the model reads 0 and nothing was called
DeviceReset ==
    /\ io = [r \in Registers |-> 0]
    /\ call = NoCall
    /\ IrqReset

\* a method op(arg) that leaves the registers as regs
Writes(op, first, last, arg, flag, regs) ==
    /\ call.op = "none"
    /\ io' = regs
    /\ call' = [NoCall EXCEPT !.op = op, !.first = first, !.last = last,
                              !.arg = arg, !.flag = flag, !.before = io]
    /\ UNCHANGED <<solverVars, atomicVars, irqVars, progVars>>

\* a method rd that returns result (an integer) or bit (a bool), called
\* after one of the methods in ops
Reads(ops, rd, result, bit) ==
    /\ call.op \in ops
    /\ call.rd = "none"
    /\ call' = [call EXCEPT !.rd = rd, !.result = result, !.bit = bit]
    /\ UNCHANGED <<io, solverVars, atomicVars, irqVars, progVars>>

Timer0_WGM_write_call(v) ==
    Writes("Timer0::WGM::write", 0, 0, v, FALSE, Timer0_WGM_write(io, v))

Timer0_WGM_read_call ==
    Reads({"Timer0::WGM::write"}, "Timer0::WGM::read",
          Timer0_WGM_read(io), FALSE)

Timer2_WGM_write_call(v) ==
    Writes("Timer2::WGM::write", 0, 0, v, FALSE, Timer2_WGM_write(io, v))

Timer2_WGM_read_call ==
    Reads({"Timer2::WGM::write"}, "Timer2::WGM::read",
          Timer2_WGM_read(io), FALSE)

Timer1_WGM_write_call(v) ==
    Writes("Timer1::WGM::write", 0, 0, v, FALSE, Timer1_WGM_write(io, v))

Timer1_WGM_read_call ==
    Reads({"Timer1::WGM::write"}, "Timer1::WGM::read",
          Timer1_WGM_read(io), FALSE)

Timer1_init_call(wgm, cs, coma, comb) ==
    Writes("Timer1::init", 0, 0, Timer1InitArg(wgm, cs, coma, comb), FALSE,
           Timer1_init(io, wgm, cs, coma, comb))

GPIOPin_setAsInput_call(pinIdx) ==
    Writes("GPIOPin::setAsInput", pinIdx, pinIdx, 0, FALSE,
           GPIOPin_setAsInput(io, pinIdx))

GPIOPin_setAsOutput_call(pinIdx) ==
    Writes("GPIOPin::setAsOutput", pinIdx, pinIdx, 0, FALSE,
           GPIOPin_setAsOutput(io, pinIdx))

GPIOPin_write_call(pinIdx, value) ==
    Writes("GPIOPin::write", pinIdx, pinIdx, 0, value,
           GPIOPin_write(io, pinIdx, value))

GPIOPin_high_call(pinIdx) ==
    Writes("GPIOPin::high", pinIdx, pinIdx, 0, FALSE, GPIOPin_high(io, pinIdx))

GPIOPin_low_call(pinIdx) ==
    Writes("GPIOPin::low", pinIdx, pinIdx, 0, FALSE, GPIOPin_low(io, pinIdx))

GPIOPinWrites == {"GPIOPin::setAsInput", "GPIOPin::setAsOutput",
                  "GPIOPin::write", "GPIOPin::high", "GPIOPin::low"}

\* GPIOPin<port, pinIdx>::read() of the pin written before
GPIOPin_read_call ==
    Reads(GPIOPinWrites, "GPIOPin::read", 0, GPIOPin_read(io, call.first))

GPIOSubPort_setAsInput_call(firstPin, lastPin) ==
    Writes("GPIOSubPort::setAsInput", firstPin, lastPin, 0, FALSE,
           GPIOSubPort_setAsInput(io, firstPin, lastPin))

GPIOSubPort_setAsOutput_call(firstPin, lastPin) ==
    Writes("GPIOSubPort::setAsOutput", firstPin, lastPin, 0, FALSE,
           GPIOSubPort_setAsOutput(io, firstPin, lastPin))

GPIOSubPort_write_call(firstPin, lastPin, value) ==
    Writes("GPIOSubPort::write", firstPin, lastPin, value, FALSE,
           GPIOSubPort_write(io, firstPin, lastPin, value))

GPIOSubPortWrites == {"GPIOSubPort::setAsInput", "GPIOSubPort::setAsOutput",
                      "GPIOSubPort::write"}

\* GPIOSubPort<port, firstPin, lastPin>::read() of the same sub-port
GPIOSubPort_read_call ==
    Reads(GPIOSubPortWrites, "GPIOSubPort::read",
          GPIOSubPort_read(io, call.first, call.last), FALSE)

USART0_field_write_call(field, value) ==
    Writes(field, UCSR0C_Fields[field][1], UCSR0C_Fields[field][2], value,
           FALSE, USART0_field_write(io, field, value))

USART0_field_read_call ==
    Reads(DOMAIN UCSR0C_Fields, "read", USART0_field_read(io, call.op), FALSE)

(***************************************************************************)
(* The main program and the interrupt handlers.  The main program calls    *)
(* one method, in an Atomic section or not; the method accesses registers  *)
(* by reading the register and writing the changed content back.  A        *)
(* handler runs between two steps of the main program when the I flag is   *)
(* set, and runs to its end.                                               *)
(***************************************************************************)

\* the number of register accesses of a method
AccessCount(op) == IF op = "Timer0::WGM::write" THEN 2 ELSE 1

\* the register of the k-th access
AccessRegister(op, k) ==
    IF op = "Timer0::WGM::write"
    THEN (IF k = 1 THEN "TCCR0A" ELSE "TCCR0B")
    ELSE "UCSR0B"

\* the k-th access applied to the registers regs
Access(op, v, k, regs) ==
    CASE op = "USART0::startTransmission" -> USART0_startTransmission(regs)
      [] op = "USART0::stopTransmission" -> USART0_stopTransmission(regs)
      [] op = "Timer0::WGM::write" /\ k = 1 -> Timer0_WGM_write_A(regs, v)
      [] op = "Timer0::WGM::write" /\ k = 2 -> Timer0_WGM_write_B(regs, v)

\* the main program calls a method; guarded: an Atomic object is constructed
\* before it and destroyed after it
Main_call(op, v, guarded) ==
    /\ pc = Idle
    /\ call' = [NoCall EXCEPT !.op = op, !.arg = v, !.flag = guarded,
                              !.before = io]
    /\ pc' = IF guarded THEN [at |-> "ctor", k |-> 0]
                        ELSE [at |-> "read", k |-> 1]
    /\ UNCHANGED <<io, tmp, irqs, isr, seen, shadow, solverVars, atomicVars,
                   progVars>>

\* Atomic(): m_SREG(SREG::read() & _BV(SREG_I))
Main_Atomic_ctor_read ==
    /\ pc.at = "ctor"
    /\ atomics' = <<[m_SREG |-> Atomic_m_SREG(SREG), before |-> SREG]>>
                      \o atomics
    /\ pc' = [at |-> "cli", k |-> 0]
    /\ UNCHANGED <<SREG, SREG0, history, lastBefore, io, call, tmp, irqs, isr,
                   seen, shadow, solverVars, progVars>>

\* Atomic(): cli()
Main_Atomic_ctor_cli ==
    /\ pc.at = "cli"
    /\ SREG' = cli(SREG)
    /\ pc' = [at |-> "read", k |-> 1]
    /\ UNCHANGED <<atomics, SREG0, history, lastBefore, io, call, tmp, irqs,
                   isr, seen, shadow, solverVars, progVars>>

\* the register of the access is read
Main_read ==
    /\ pc.at = "read"
    /\ tmp' = io[AccessRegister(call.op, pc.k)]
    /\ pc' = [at |-> "write", k |-> pc.k]
    /\ UNCHANGED <<io, call, irqs, isr, seen, shadow, solverVars, atomicVars,
                   progVars>>

\* the content read, with the field changed, is written back
Main_write ==
    /\ pc.at = "write"
    /\ LET reg == AccessRegister(call.op, pc.k)
       IN  /\ io' = [io EXCEPT ![reg] =
                        Access(call.op, call.arg, pc.k,
                               [io EXCEPT ![reg] = tmp])[reg]]
           /\ shadow' = [shadow EXCEPT ![reg] =
                            Access(call.op, call.arg, pc.k, shadow)[reg]]
    /\ pc' = IF pc.k < AccessCount(call.op) THEN [at |-> "read", k |-> pc.k + 1]
             ELSE IF call.flag THEN [at |-> "dtor", k |-> 0]
             ELSE [at |-> "done", k |-> 0]
    /\ UNCHANGED <<call, tmp, irqs, isr, seen, solverVars, atomicVars,
                   progVars>>

\* ~Atomic(): SREG::write(SREG::read() | m_SREG)
Main_Atomic_dtor ==
    /\ pc.at = "dtor"
    /\ SREG' = Atomic_restore(SREG, Head(atomics).m_SREG)
    /\ lastBefore' = Head(atomics).before
    /\ atomics' = Tail(atomics)
    /\ pc' = [at |-> "done", k |-> 0]
    /\ UNCHANGED <<SREG0, history, io, call, tmp, irqs, isr, seen, shadow,
                   solverVars, progVars>>

\* an interrupt is taken only while the I flag is set
InterruptEnabled == IFlag(SREG) = 1 /\ irqs < MaxIrqs

\* a handler of USART0 writes an interrupt enable bit of UCSR0B and returns
Handler_write(bit, value) ==
    /\ InterruptEnabled
    /\ io' = USART0_handler_write(io, bit, value)
    /\ shadow' = USART0_handler_write(shadow, bit, value)
    /\ isr' = [op |-> "write", bit |-> bit, value |-> value, at |-> pc]
    /\ irqs' = irqs + 1
    /\ UNCHANGED <<call, pc, tmp, seen, solverVars, atomicVars, progVars>>

\* a handler reads the waveform generation mode of Timer0 and returns
Handler_read ==
    /\ InterruptEnabled
    /\ seen' = [op |-> "read", mode |-> Timer0_WGM_read(io), at |-> pc]
    /\ irqs' = irqs + 1
    /\ UNCHANGED <<io, call, pc, tmp, isr, shadow, solverVars, atomicVars,
                   progVars>>

(***************************************************************************)
(* The A/D converter: the statements of Pin::startConversion, the polling  *)
(* loop of wait, and the hardware that finishes a conversion.              *)
(***************************************************************************)

\* Pin<t_channelIdx>::startConversion(), first statement: select()
ADConverter_Pin_startConversion_select(t_channelIdx) ==
    /\ pc = Idle
    /\ io' = ADConverter_Pin_select(io, t_channelIdx)
    /\ call' = [NoCall EXCEPT !.op = "ADConverter::Pin::startConversion",
                              !.arg = t_channelIdx, !.before = io]
    /\ pc' = [at |-> "start", k |-> 0]
    /\ UNCHANGED <<tmp, irqs, isr, seen, shadow, solverVars, atomicVars,
                   progVars>>

\* Pin<t_channelIdx>::startConversion(), second statement:
\* ADConverter::startConversion(); call.bit records ADSC before it
ADConverter_Pin_startConversion_start ==
    /\ pc.at = "start"
    /\ io' = ADConverter_startConversion(io)
    /\ call' = [call EXCEPT !.rd = "ADConverter::startConversion",
                            !.bit = ADConverter_wait_busy(io)]
    /\ pc' = Idle
    /\ UNCHANGED <<tmp, irqs, isr, seen, shadow, solverVars, atomicVars,
                   progVars>>

\* Pin::wait() is called
ADConverter_Pin_wait_call ==
    /\ pc = Idle
    /\ call.op # "none"
    /\ pc' = [at |-> "wait", k |-> 0]
    /\ UNCHANGED <<io, call, tmp, irqs, isr, seen, shadow, solverVars,
                   atomicVars, progVars>>

\* ADConverter::startConversion() is called
ADConverter_startConversion_call ==
    /\ pc = Idle
    /\ io' = ADConverter_startConversion(io)
    /\ UNCHANGED <<call, irqVars, solverVars, atomicVars, progVars>>

\* ADConverter::wait() is called
ADConverter_wait_call ==
    /\ pc = Idle
    /\ pc' = [at |-> "wait", k |-> 0]
    /\ UNCHANGED <<io, call, tmp, irqs, isr, seen, shadow, solverVars,
                   atomicVars, progVars>>

\* ADConverter::wait gives up after two polls
ADConverter_wait_poll_timeout ==
    /\ pc.at = "wait"
    /\ tmp' = io["ADCSRA"]
    /\ IF ADConverter_wait_busy(io) /\ pc.k < 2
       THEN /\ pc' = [pc EXCEPT !.k = @ + 1]
            /\ UNCHANGED waited
       ELSE /\ pc' = Idle
            /\ waited' = [op |-> "ADConverter::wait", polls |-> pc.k,
                          bit |-> BitInRegister_read(io["ADCSRA"], ADSC)]
    /\ UNCHANGED <<io, call, irqs, isr, seen, shadow, solverVars, atomicVars,
                   auiBuffer, eeAccess, spi, pinState, sampled, lastRead>>

\* one evaluation of the loop condition of ADConverter::wait: the method
\* returns when ADSC reads 0
ADConverter_wait_poll ==
    /\ pc.at = "wait"
    /\ tmp' = io["ADCSRA"]
    /\ IF ADConverter_wait_busy(io)
       THEN /\ pc' = [pc EXCEPT !.k = IF @ < MaxPolls THEN @ + 1 ELSE @]
            /\ UNCHANGED waited
       ELSE /\ pc' = Idle
            /\ waited' = [op |-> "ADConverter::wait", polls |-> pc.k,
                          bit |-> BitInRegister_read(io["ADCSRA"], ADSC)]
    /\ UNCHANGED <<io, call, irqs, isr, seen, shadow, solverVars, atomicVars,
                   auiBuffer, eeAccess, spi, pinState, sampled, lastRead>>

\* the hardware finishes the conversion in progress
ADC_conversionComplete_step ==
    /\ ADConverter_wait_busy(io)
    /\ io' = ADC_conversionComplete(io)
    /\ UNCHANGED <<call, irqVars, solverVars, atomicVars, progVars>>

(***************************************************************************)
(* SPI: transmit, receive and wait, and the hardware that completes a      *)
(* transfer.  spi holds whether SPSR was read with SPIF set since the last *)
(* access of SPDR.                                                         *)
(***************************************************************************)

\* SPI::transmit(data): SPDR is written
SPI_transmit_call(data) ==
    /\ pc = Idle
    /\ io' = SPI_transmit(io, spi, data)
    /\ spi' = FALSE
    /\ call' = [NoCall EXCEPT !.op = "SPI::transmit", !.arg = data]
    /\ lastRead' = [lastRead EXCEPT !.reg = "none", !.value = 0]
    /\ UNCHANGED <<irqVars, solverVars, atomicVars, auiBuffer, eeAccess,
                   waited, pinState, sampled>>

\* SPI::receive(): SPDR is read
SPI_receive_call ==
    /\ pc = Idle
    /\ lastRead' = [reg |-> "SPDR", value |-> io["SPDR"],
                    n |-> 1 - lastRead.n]
    /\ io' = SPI_SPDR_access(io, spi)
    /\ spi' = FALSE
    /\ call' = [NoCall EXCEPT !.op = "SPI::receive", !.result = io["SPDR"]]
    /\ UNCHANGED <<irqVars, solverVars, atomicVars, auiBuffer, eeAccess,
                   waited, pinState, sampled>>

\* SPI::setClockRate(clockRate), first statement of ClockRate_Bits::write
SPI_setClockRate_SPR(clockRate) ==
    /\ pc = Idle
    /\ io' = SPI_ClockRate_Bits_write_SPR(io, clockRate)
    /\ call' = [NoCall EXCEPT !.op = "SPI::setClockRate", !.arg = clockRate,
                              !.before = io]
    /\ pc' = [at |-> "setClockRate", k |-> 1]
    /\ lastRead' = [lastRead EXCEPT !.reg = "none", !.value = 0]
    /\ UNCHANGED <<tmp, irqs, isr, seen, shadow, solverVars, atomicVars,
                   auiBuffer, eeAccess, spi, waited, pinState, sampled>>

\* SPI::setClockRate, second statement of ClockRate_Bits::write: SPSR is
\* read, changed and written
SPI_setClockRate_SPI2X ==
    /\ pc.at = "setClockRate"
    /\ io' = SPI_ClockRate_Bits_write_SPI2X(io, call.arg)
    /\ spi' = (spi \/ BitInRegister_read(io["SPSR"], SPIF))
    /\ pc' = Idle
    /\ UNCHANGED <<call, tmp, irqs, isr, seen, shadow, solverVars, atomicVars,
                   auiBuffer, eeAccess, waited, pinState, sampled, lastRead>>

\* SPI::initSlaveMode, the statements that set up the pins and the mode
SPI_initSlaveMode_setup_step ==
    /\ pc = Idle
    /\ io' = SPI_initSlaveMode_setup(io)
    /\ call' = [NoCall EXCEPT !.op = "SPI::initSlaveMode", !.before = io]
    /\ pc' = [at |-> "initSlaveMode", k |-> 1]
    /\ lastRead' = [lastRead EXCEPT !.reg = "none", !.value = 0]
    /\ UNCHANGED <<tmp, irqs, isr, seen, shadow, solverVars, atomicVars,
                   auiBuffer, eeAccess, spi, waited, pinState, sampled>>

\* SPI::initSlaveMode, SPSR::read()
SPI_initSlaveMode_readSPSR ==
    /\ pc = [at |-> "initSlaveMode", k |-> 1]
    /\ lastRead' = [reg |-> "SPSR", value |-> io["SPSR"],
                    n |-> 1 - lastRead.n]
    /\ spi' = (spi \/ BitInRegister_read(io["SPSR"], SPIF))
    /\ pc' = [pc EXCEPT !.k = 2]
    /\ UNCHANGED <<io, call, tmp, irqs, isr, seen, shadow, solverVars,
                   atomicVars, auiBuffer, eeAccess, waited, pinState, sampled>>

\* SPI::initSlaveMode, SPDR::read()
SPI_initSlaveMode_readSPDR ==
    /\ pc = [at |-> "initSlaveMode", k |-> 2]
    /\ lastRead' = [reg |-> "SPDR", value |-> io["SPDR"],
                    n |-> 1 - lastRead.n]
    /\ io' = SPI_SPDR_access(io, spi)
    /\ spi' = FALSE
    /\ pc' = Idle
    /\ UNCHANGED <<call, tmp, irqs, isr, seen, shadow, solverVars, atomicVars,
                   auiBuffer, eeAccess, waited, pinState, sampled>>

\* SPI::wait() is called
SPI_wait_call ==
    /\ pc = Idle
    /\ pc' = [at |-> "SPI::wait", k |-> 0]
    /\ UNCHANGED <<io, call, tmp, irqs, isr, seen, shadow, solverVars,
                   atomicVars, progVars>>

\* SPI::wait returns after its first poll
SPI_wait_poll_once ==
    /\ pc.at = "SPI::wait"
    /\ tmp' = io["SPSR"]
    /\ spi' = (spi \/ BitInRegister_read(io["SPSR"], SPIF))
    /\ pc' = Idle
    /\ waited' = [op |-> "SPI::wait", polls |-> pc.k,
                  bit |-> BitInRegister_read(io["SPSR"], SPIF)]
    /\ UNCHANGED <<io, call, irqs, isr, seen, shadow, solverVars, atomicVars,
                   auiBuffer, eeAccess, pinState, sampled, lastRead>>

\* one evaluation of the loop condition of SPI::wait, a read of SPSR: the
\* method returns when SPIF reads 1
SPI_wait_poll ==
    /\ pc.at = "SPI::wait"
    /\ tmp' = io["SPSR"]
    /\ spi' = (spi \/ BitInRegister_read(io["SPSR"], SPIF))
    /\ IF SPI_wait_busy(io)
       THEN /\ pc' = [pc EXCEPT !.k = IF @ < MaxPolls THEN @ + 1 ELSE @]
            /\ UNCHANGED waited
       ELSE /\ pc' = Idle
            /\ waited' = [op |-> "SPI::wait", polls |-> pc.k,
                          bit |-> BitInRegister_read(io["SPSR"], SPIF)]
    /\ UNCHANGED <<io, call, irqs, isr, seen, shadow, solverVars, atomicVars,
                   auiBuffer, eeAccess, pinState, sampled, lastRead>>

\* the hardware completes a transfer
SPI_transferComplete_step(received) ==
    /\ SPI_wait_busy(io)
    /\ io' = SPI_transferComplete(io, received)
    /\ lastRead' = [lastRead EXCEPT !.reg = "none", !.value = 0]
    /\ UNCHANGED <<call, irqVars, solverVars, atomicVars, auiBuffer, eeAccess,
                   spi, waited, pinState, sampled>>

(***************************************************************************)
(* Calls of the methods of Int0 and Int1, one after the other.  history    *)
(* holds the calls made, shadow the registers at the start.                *)
(***************************************************************************)

Int_call(op, interruptSenseControl, enable) ==
    /\ Len(history) < MaxIntCalls
    /\ io' = Int_method(op, io, interruptSenseControl, enable)
    /\ call' = [NoCall EXCEPT !.op = op, !.arg = interruptSenseControl,
                              !.flag = enable, !.before = io]
    /\ history' = Append(history, <<op, interruptSenseControl, enable>>)
    /\ UNCHANGED <<SREG, atomics, SREG0, lastBefore, irqVars, solverVars,
                   progVars>>

Int0_init_call(interruptSenseControl, enable) ==
    Int_call("Int0::init", interruptSenseControl, enable)

Int1_init_call(interruptSenseControl, enable) ==
    Int_call("Int1::init", interruptSenseControl, enable)

Int0_enableInterrupt_call == Int_call("Int0::enableInterrupt", 0, TRUE)

Int0_disableInterrupt_call == Int_call("Int0::disableInterrupt", 0, FALSE)

Int1_enableInterrupt_call == Int_call("Int1::enableInterrupt", 0, TRUE)

Int1_disableInterrupt_call == Int_call("Int1::disableInterrupt", 0, FALSE)

(***************************************************************************)
(* test/Int1: main() sets up the output pin and INT1 and enables the       *)
(* interrupts; the handler of INT1 writes pinState to the pin and inverts  *)
(* it.  pc.k is the number of statements of main() executed, irqs the      *)
(* number of handler invocations, shadow the registers at the start.       *)
(***************************************************************************)

\* OutputPin::setAsOutput();
Int1Test_setAsOutput ==
    /\ pc = [at |-> "Int1Test", k |-> 0]
    /\ io' = GPIOPinAt_setAsOutput(io, "D", Int1Test_OutputPin)
    /\ pc' = [pc EXCEPT !.k = 1]
    /\ UNCHANGED <<call, tmp, irqs, isr, seen, shadow, solverVars, atomicVars,
                   progVars>>

\* OutputPin::low();
Int1Test_low ==
    /\ pc = [at |-> "Int1Test", k |-> 1]
    /\ io' = GPIOPinAt_low(io, "D", Int1Test_OutputPin)
    /\ pc' = [pc EXCEPT !.k = 2]
    /\ UNCHANGED <<call, tmp, irqs, isr, seen, shadow, solverVars, atomicVars,
                   progVars>>

\* m328p::Int1::init();
Int1Test_init ==
    /\ pc = [at |-> "Int1Test", k |-> 2]
    /\ io' = Int1_init(io, RISING_EDGE, TRUE)
    /\ pc' = [pc EXCEPT !.k = 3]
    /\ UNCHANGED <<call, tmp, irqs, isr, seen, shadow, solverVars, atomicVars,
                   progVars>>

\* sei(); after it main() stays in while (1) {}
Int1Test_sei ==
    /\ pc = [at |-> "Int1Test", k |-> 3]
    /\ SREG' = sei(SREG)
    /\ pc' = [pc EXCEPT !.k = 4]
    /\ UNCHANGED <<atomics, SREG0, history, lastBefore, io, call, tmp, irqs,
                   isr, seen, shadow, solverVars, progVars>>

\* m328p::Int1::handleInterrupt(): the hardware calls it when the interrupts
\* are enabled (I) and INT1 is enabled in EIMSK
Int1_handleInterrupt ==
    /\ pc.at = "Int1Test"
    /\ IFlag(SREG) = 1
    /\ BitInRegister_read(io["EIMSK"], INT1)
    /\ irqs < MaxInvocations
    /\ io' = GPIOPinAt_write(io, "D", Int1Test_OutputPin, pinState)
    /\ pinState' = ~pinState
    /\ irqs' = irqs + 1
    /\ UNCHANGED <<call, pc, tmp, isr, seen, shadow, solverVars, atomicVars,
                   auiBuffer, eeAccess, spi, waited, sampled, lastRead>>

(***************************************************************************)
(* test/GPIO: main() sets the directions and then forwards, in a loop,     *)
(* port D to port B, pins 2..3 of port C to pins 0..1 and pin 5 of port C  *)
(* to pin 4.  pc.k is the statement main() is at (6 and up: the loop, a    *)
(* read and a write per statement); tmp is the value read; sampled holds   *)
(* the values written last; shadow the registers after the setup.          *)
(***************************************************************************)

\* statement k of the setup leaves the registers as regs
GPIOTest_setup(k, regs) ==
    /\ pc = [at |-> "GPIOTest", k |-> k]
    /\ io' = regs
    /\ pc' = [pc EXCEPT !.k = k + 1]
    /\ shadow' = IF k = 5 THEN regs ELSE shadow
    /\ UNCHANGED <<call, tmp, irqs, isr, seen, solverVars, atomicVars,
                   progVars>>

\* OutputPort::setAsOutput();
GPIOTest_OutputPort_setAsOutput ==
    GPIOTest_setup(0, GPIOPort_setAsOutput(io, "B"))

\* InputPort::setAsInput();
GPIOTest_InputPort_setAsInput ==
    GPIOTest_setup(1, GPIOPort_setAsInput(io, "D"))

\* OutputSubPort::setAsOutput();
GPIOTest_OutputSubPort_setAsOutput ==
    GPIOTest_setup(2, GPIOSubPortAt_setAsOutput(io, "C", 0, 1))

\* InputSubPort::setAsInput();
GPIOTest_InputSubPort_setAsInput ==
    GPIOTest_setup(3, GPIOSubPortAt_setAsInput(io, "C", 2, 3))

\* OutputPin::setAsOutput();
GPIOTest_OutputPin_setAsOutput ==
    GPIOTest_setup(4, GPIOPinAt_setAsOutput(io, "C", 4))

\* InputPin::setAsInput();
GPIOTest_InputPin_setAsInput ==
    GPIOTest_setup(5, GPIOPinAt_setAsInput(io, "C", 5))

\* the argument of a write of the loop is read
GPIOTest_read(k, value) ==
    /\ pc = [at |-> "GPIOTest", k |-> k]
    /\ tmp' = value
    /\ pc' = [pc EXCEPT !.k = k + 1]
    /\ UNCHANGED <<io, call, irqs, isr, seen, shadow, solverVars, atomicVars,
                   progVars>>

\* a write of the loop leaves the registers as regs
GPIOTest_write(k, next, regs, written) ==
    /\ pc = [at |-> "GPIOTest", k |-> k]
    /\ io' = regs
    /\ sampled' = written
    /\ pc' = [pc EXCEPT !.k = next]
    /\ UNCHANGED <<call, tmp, irqs, isr, seen, shadow, solverVars, atomicVars,
                   auiBuffer, eeAccess, spi, waited, pinState, lastRead>>

\* OutputPort::write(InputPort::read());
GPIOTest_InputPort_read == GPIOTest_read(6, GPIOPort_read(io, "D"))

GPIOTest_OutputPort_write ==
    GPIOTest_write(7, 8, GPIOPort_write(io, "B", tmp),
                   [sampled EXCEPT !.port = tmp,
                                   !.done = IF @ < 1 THEN 1 ELSE @])

\* OutputSubPort::write(InputSubPort::read());
GPIOTest_InputSubPort_read ==
    GPIOTest_read(8, GPIOSubPortAt_read(io, "C", 2, 3))

GPIOTest_OutputSubPort_write ==
    GPIOTest_write(9, 10, GPIOSubPortAt_write(io, "C", 0, 1, tmp),
                   [sampled EXCEPT !.subPort = tmp,
                                   !.done = IF @ < 2 THEN 2 ELSE @])

\* OutputPin::write(InputPin::read());
GPIOTest_InputPin_read ==
    GPIOTest_read(10, IF GPIOPinAt_read(io, "C", 5) THEN 1 ELSE 0)

GPIOTest_OutputPin_write ==
    GPIOTest_write(11, 6, GPIOPinAt_write(io, "C", 4, tmp = 1),
                   [sampled EXCEPT !.pin = (tmp = 1), !.done = 3])

\* the levels of the input pins change
GPIOTest_input(d, c) ==
    /\ pc.at = "GPIOTest"
    /\ io' = [io EXCEPT !["PIND"] = d, !["PINC"] = c]
    /\ UNCHANGED <<call, irqVars, solverVars, atomicVars, progVars>>

(***************************************************************************)
(* EEPROM: the methods that take a position.                               *)
(***************************************************************************)

\* an access of the cells first..last that leaves the buffer as buffer
EEPROM_access(op, pos, nofBytes, data, result, written, buffer) ==
    /\ eeAccess.n < MaxAccesses
    /\ auiBuffer' = buffer
    /\ eeAccess' = [op |-> op, pos |-> pos, nofBytes |-> nofBytes,
                    data |-> data, first |-> getBufferPointer(pos),
                    last |-> getBufferPointer(pos) + nofBytes - 1,
                    result |-> result, written |-> written,
                    n |-> eeAccess.n + 1]
    /\ UNCHANGED <<solverVars, atomicVars, deviceVars, spi, waited, pinState,
                   sampled, lastRead>>

\* EEPROM::write(pos, data)
EEPROM_write_byte(pos, data) ==
    EEPROM_access("write", pos, 1, data, 0, -1,
                  EEPROM_store(auiBuffer, getBufferPointer(pos),
                               getBufferPointer(pos), data, FALSE))

\* EEPROM::read(pos)
EEPROM_read_byte(pos) ==
    EEPROM_access("read", pos, 1, 0,
                  EEPROM_content(auiBuffer, getBufferPointer(pos)),
                  IF eeAccess.op = "write" /\ eeAccess.pos = pos
                  THEN eeAccess.data ELSE -1,
                  auiBuffer)

\* EEPROM::write(pos, data, nofBytes), with nofBytes bytes data in RAM
EEPROM_write_block(pos, data, nofBytes, wraps) ==
    /\ wraps => getBufferPointer(pos) + nofBytes > capacity
    /\ EEPROM_access("write block", pos, nofBytes, data, 0, -1,
                     EEPROM_store(auiBuffer, getBufferPointer(pos),
                                  getBufferPointer(pos) + nofBytes - 1,
                                  data, wraps))

\* EEPROM::read(pos, data, nofBytes); result is the first byte read
EEPROM_read_block(pos, nofBytes) ==
    EEPROM_access("read block", pos, nofBytes, 0,
                  EEPROM_content(auiBuffer, getBufferPointer(pos)), -1,
                  auiBuffer)

(***************************************************************************)
(* The programs of the later sections at reset.                            *)
(***************************************************************************)

NoAccess == [op |-> "none", pos |-> 0, nofBytes |-> 0, data |-> 0,
             first |-> 0, last |-> 0, result |-> 0, written |-> -1, n |-> 0]

NoWait == [op |-> "none", polls |-> 0, bit |-> FALSE]

NoSample == [port |-> 0, subPort |-> 0, pin |-> FALSE, done |-> 0]

NoRead == [reg |-> "none", value |-> 0, n |-> 0]

ProgReset ==
    /\ auiBuffer = [fill |-> 255, bytes |-> [o \in {} |-> 0]]
    /\ eeAccess = NoAccess
    /\ spi = FALSE
    /\ waited = NoWait
    /\ pinState = TRUE
    /\ sampled = NoSample
    /\ lastRead = NoRead

(***************************************************************************)
(* Specifications.                                                         *)
(***************************************************************************)

\* The solver on every drawn (clock, baud rate) pair.
SolverInit ==
    /\ cpuClock \in ClockRates
    /\ baudRate \in BaudRates
    /\ SolverReset
    /\ ProgReset
    /\ SREG = 0 /\ SREG0 = 0 /\ atomics = <<>> /\ history = <<>>
    /\ lastBefore = 0
    /\ DeviceReset

SolverNext == \E z \in DivZeroResults : USART0_init(z)

SolverSpec == SolverInit /\ [][SolverNext]_vars

\* Runs of constructor / destructor / sei / cli.
AtomicInit ==
    /\ cpuClock = FromNat(16000000)
    /\ baudRate = FromNat(9600)
    /\ SolverReset
    /\ ProgReset
    /\ AtomicReset
    /\ DeviceReset

AtomicNext == Atomic_ctor \/ Atomic_dtor \/ Code_sei \/ Code_cli

AtomicSpec == AtomicInit /\ [][AtomicNext]_vars

\* Atomic sections around code that also changes the other flags.
AtomicFlagsNext == AtomicNext \/ Code_alu

AtomicFlagsSpec == AtomicInit /\ [][AtomicFlagsNext]_vars

\* One driver method that writes a field, from arbitrary register contents,
\* and the method that reads the field back.
FieldInit ==
    /\ cpuClock = FromNat(16000000)
    /\ baudRate = FromNat(9600)
    /\ SolverReset
    /\ ProgReset
    /\ SREG = 0 /\ SREG0 = 0 /\ atomics = <<>> /\ history = <<>>
    /\ lastBefore = 0
    /\ \E c \in Bytes, d \in FillBytes :
           io = [r \in Registers |-> IF r \in SecondRegisters THEN d ELSE c]
    /\ call = NoCall
    /\ IrqReset

TimerNext ==
    \/ \E v \in Timer0Modes : Timer0_WGM_write_call(v)
    \/ Timer0_WGM_read_call
    \/ \E v \in Timer0Modes : Timer2_WGM_write_call(v)
    \/ Timer2_WGM_read_call
    \/ \E v \in Timer1Modes : Timer1_WGM_write_call(v)
    \/ Timer1_WGM_read_call
    \/ \E wgm \in Timer1Modes, cs \in ClockSelects,
          coma \in CompareOutputModesA, comb \in CompareOutputModesB :
           Timer1_init_call(wgm, cs, coma, comb)

GPIONext ==
    \/ \E p \in Pins : GPIOPin_setAsInput_call(p)
    \/ \E p \in Pins : GPIOPin_setAsOutput_call(p)
    \/ \E p \in Pins, value \in BOOLEAN : GPIOPin_write_call(p, value)
    \/ \E p \in Pins : GPIOPin_high_call(p)
    \/ \E p \in Pins : GPIOPin_low_call(p)
    \/ GPIOPin_read_call
    \/ \E s \in SubPorts : GPIOSubPort_setAsInput_call(s[1], s[2])
    \/ \E s \in SubPorts : GPIOSubPort_setAsOutput_call(s[1], s[2])
    \/ \E s \in SubPorts, value \in SubPortValues :
           GPIOSubPort_write_call(s[1], s[2], value)
    \/ GPIOSubPort_read_call

USART0FieldNext ==
    \/ \E field \in DOMAIN UCSR0C_Fields :
           \E value \in Representable(UCSR0C_Fields[field][1],
                                      UCSR0C_Fields[field][2]) :
               USART0_field_write_call(field, value)
    \/ USART0_field_read_call

FieldNext == TimerNext \/ GPIONext \/ USART0FieldNext

FieldSpec == FieldInit /\ [][FieldNext]_vars

\* One method of the main program, and the interrupt handlers.  At the start
\* UCSR0B or the mode of Timer0 varies, the other has one value.
IrqInit ==
    /\ cpuClock = FromNat(16000000)
    /\ baudRate = FromNat(9600)
    /\ SolverReset
    /\ ProgReset
    /\ SREG \in {0, BV_SREG_I}
    /\ SREG0 = SREG /\ atomics = <<>> /\ history = <<>> /\ lastBefore = 0
    /\ \E b \in UCSR0BInit, m \in Timer0Modes :
           /\ b = 152 \/ m = 3
           /\ io = Timer0_WGM_write(
                      [r \in Registers |-> IF r = "UCSR0B" THEN b ELSE 0], m)
    /\ call = NoCall
    /\ IrqReset

IrqNext ==
    \/ \E c \in MainCalls, guarded \in BOOLEAN : Main_call(c[1], c[2], guarded)
    \/ Main_Atomic_ctor_read
    \/ Main_Atomic_ctor_cli
    \/ Main_read
    \/ Main_write
    \/ Main_Atomic_dtor
    \/ \E bit \in HandlerBits, value \in BOOLEAN : Handler_write(bit, value)
    \/ Handler_read

IrqSpec == IrqInit /\ [][IrqNext]_vars

\* The A/D converter after ADConverter::init, no conversion in progress.
AdcInit ==
    /\ cpuClock = FromNat(16000000)
    /\ baudRate = FromNat(9600)
    /\ SolverReset
    /\ ProgReset
    /\ SREG = 0 /\ SREG0 = 0 /\ atomics = <<>> /\ history = <<>>
    /\ lastBefore = 0
    /\ \E m \in ADMUXInit, a \in ADCSRAInit :
           io = [r \in Registers |->
                    IF r = "ADMUX" THEN m ELSE IF r = "ADCSRA" THEN a ELSE 0]
    /\ call = NoCall
    /\ IrqReset

AdcNext ==
    \/ \E ch \in Channels : ADConverter_Pin_startConversion_select(ch)
    \/ ADConverter_Pin_startConversion_start
    \/ ADConverter_Pin_wait_call
    \/ ADConverter_wait_poll
    \/ ADC_conversionComplete_step

AdcSpec == AdcInit /\ [][AdcNext]_vars

\* The SPI driver: clock rate, slave mode, transmit and receive, with the
\* hardware that completes transfers.
SpiInit ==
    /\ cpuClock = FromNat(16000000)
    /\ baudRate = FromNat(9600)
    /\ SolverReset
    /\ ProgReset
    /\ SREG = 0 /\ SREG0 = 0 /\ atomics = <<>> /\ history = <<>>
    /\ lastBefore = 0
    /\ \E c \in SPCRInit, s \in SPSRInit :
           io = [r \in Registers |->
                    IF r = "SPCR" THEN c ELSE IF r = "SPSR" THEN s ELSE 0]
    /\ call = NoCall
    /\ IrqReset

SpiNext ==
    \/ \E clockRate \in SPIClockRates : SPI_setClockRate_SPR(clockRate)
    \/ SPI_setClockRate_SPI2X
    \/ SPI_initSlaveMode_setup_step
    \/ SPI_initSlaveMode_readSPSR
    \/ SPI_initSlaveMode_readSPDR
    \/ \E data \in SPIBytes : SPI_transmit_call(data)
    \/ SPI_receive_call
    \/ \E received \in SPIBytes : SPI_transferComplete_step(received)

SpiSpec == SpiInit /\ [][SpiNext]_vars

\* Calls of the methods of Int0 and Int1 from arbitrary register contents.
IntInit ==
    /\ cpuClock = FromNat(16000000)
    /\ baudRate = FromNat(9600)
    /\ SolverReset
    /\ ProgReset
    /\ SREG = 0 /\ SREG0 = 0 /\ atomics = <<>> /\ history = <<>>
    /\ lastBefore = 0
    /\ \E c \in IntInitBytes :
           io = [r \in Registers |->
                    IF r \in {"EICRA", "EIMSK", "DDRD"} THEN c ELSE 0]
    /\ call = NoCall
    /\ IrqReset

IntNext ==
    \/ \E isc \in InterruptSenseControls, enable \in BOOLEAN :
           Int0_init_call(isc, enable)
    \/ \E isc \in InterruptSenseControls, enable \in BOOLEAN :
           Int1_init_call(isc, enable)
    \/ Int0_enableInterrupt_call
    \/ Int0_disableInterrupt_call
    \/ Int1_enableInterrupt_call
    \/ Int1_disableInterrupt_call

IntSpec == IntInit /\ [][IntNext]_vars

\* test/Int1 from reset, with any contents of PORTD and DDRD.
Int1TestInit ==
    /\ cpuClock = FromNat(16000000)
    /\ baudRate = FromNat(9600)
    /\ SolverReset
    /\ ProgReset
    /\ SREG = 0 /\ SREG0 = 0 /\ atomics = <<>> /\ history = <<>>
    /\ lastBefore = 0
    /\ \E c \in Bytes, d \in FillBytes :
           io = [r \in Registers |->
                    IF r = "PORTD" THEN c ELSE IF r = "DDRD" THEN d ELSE 0]
    /\ call = NoCall
    /\ pc = [at |-> "Int1Test", k |-> 0]
    /\ tmp = 0
    /\ irqs = 0
    /\ isr = [op |-> "none", bit |-> 0, value |-> FALSE, at |-> Idle]
    /\ seen = [op |-> "none", mode |-> 0, at |-> Idle]
    /\ shadow = io

Int1TestNext ==
    \/ Int1Test_setAsOutput
    \/ Int1Test_low
    \/ Int1Test_init
    \/ Int1Test_sei
    \/ Int1_handleInterrupt

Int1TestSpec == Int1TestInit /\ [][Int1TestNext]_vars

\* test/GPIO from registers that are all clear or all set.
GPIOTestInit ==
    /\ cpuClock = FromNat(16000000)
    /\ baudRate = FromNat(9600)
    /\ SolverReset
    /\ ProgReset
    /\ SREG = 0 /\ SREG0 = 0 /\ atomics = <<>> /\ history = <<>>
    /\ lastBefore = 0
    /\ \E c \in FillBytes, d \in PINDInputs, e \in PINCInputs :
           io = [r \in Registers |->
                    CASE r \in {"DDRB", "DDRC", "DDRD", "PORTB", "PORTC",
                                "PORTD"} -> c
                      [] r = "PIND" -> d
                      [] r = "PINC" -> e
                      [] OTHER -> 0]
    /\ call = NoCall
    /\ pc = [at |-> "GPIOTest", k |-> 0]
    /\ tmp = 0
    /\ irqs = 0
    /\ isr = [op |-> "none", bit |-> 0, value |-> FALSE, at |-> Idle]
    /\ seen = [op |-> "none", mode |-> 0, at |-> Idle]
    /\ shadow = io

GPIOTestNext ==
    \/ GPIOTest_OutputPort_setAsOutput
    \/ GPIOTest_InputPort_setAsInput
    \/ GPIOTest_OutputSubPort_setAsOutput
    \/ GPIOTest_InputSubPort_setAsInput
    \/ GPIOTest_OutputPin_setAsOutput
    \/ GPIOTest_InputPin_setAsInput
    \/ GPIOTest_InputPort_read
    \/ GPIOTest_OutputPort_write
    \/ GPIOTest_InputSubPort_read
    \/ GPIOTest_OutputSubPort_write
    \/ GPIOTest_InputPin_read
    \/ GPIOTest_OutputPin_write
    \/ \E d \in PINDInputs, c \in PINCInputs : GPIOTest_input(d, c)

GPIOTestSpec == GPIOTestInit /\ [][GPIOTestNext]_vars

\* Accesses of the EEPROM buffer by position.
EepromInit ==
    /\ cpuClock = FromNat(16000000)
    /\ baudRate = FromNat(9600)
    /\ SolverReset
    /\ SREG = 0 /\ SREG0 = 0 /\ atomics = <<>> /\ history = <<>>
    /\ lastBefore = 0
    /\ DeviceReset
    /\ \E f \in FillBytes :
           auiBuffer = [fill |-> f, bytes |-> [o \in {} |-> 0]]
    /\ eeAccess = NoAccess
    /\ spi = FALSE
    /\ waited = NoWait
    /\ pinState = TRUE
    /\ sampled = NoSample
    /\ lastRead = NoRead

EepromNext ==
    \/ \E pos \in Positions, data \in EEBytes : EEPROM_write_byte(pos, data)
    \/ \E pos \in Positions : EEPROM_read_byte(pos)
    \/ \E pos \in Positions, data \in EEBytes, nofBytes \in NofBytes,
          wraps \in BOOLEAN :
           EEPROM_write_block(pos, data, nofBytes, wraps)
    \/ \E pos \in Positions, nofBytes \in NofBytes :
           EEPROM_read_block(pos, nofBytes)

EepromSpec == EepromInit /\ [][EepromNext]_vars

\* A program that starts conversions and transfers and waits for them, with
\* the converter and the SPI hardware.
WaitInit ==
    /\ cpuClock = FromNat(16000000)
    /\ baudRate = FromNat(9600)
    /\ SolverReset
    /\ ProgReset
    /\ SREG = 0 /\ SREG0 = 0 /\ atomics = <<>> /\ history = <<>>
    /\ lastBefore = 0
    /\ \E m \in ADMUXInit :
           io = [r \in Registers |->
                    IF r = "ADMUX" THEN m ELSE IF r = "ADCSRA" THEN 128 ELSE 0]
    /\ call = NoCall
    /\ IrqReset

\* the steps of the program
WaitProgramNext ==
    \/ ADConverter_startConversion_call
    \/ ADConverter_wait_call
    \/ ADConverter_wait_poll
    \/ \E data \in SPIBytes : SPI_transmit_call(data)
    \/ SPI_receive_call
    \/ SPI_wait_call
    \/ SPI_wait_poll

\* the steps of the hardware
WaitHardwareNext ==
    \/ ADC_conversionComplete_step
    \/ \E received \in SPIBytes : SPI_transferComplete_step(received)

WaitNext == WaitProgramNext \/ WaitHardwareNext

\* The processor keeps executing the loop of a wait() it is in; the converter
\* finishes a conversion in progress and the SPI hardware completes a
\* transfer.
WaitSpec ==
    /\ WaitInit
    /\ [][WaitNext]_vars
    /\ WF_vars(ADConverter_wait_poll)
    /\ WF_vars(SPI_wait_poll)
    /\ WF_vars(ADC_conversionComplete_step)
    /\ WF_vars(\E received \in SPIBytes : SPI_transferComplete_step(received))

\* The same program with hardware that never changes a status bit.
StuckSpec == WaitInit /\ [][WaitProgramNext]_vars

\* The program: one USART configuration and the atomic sections.
Init == AtomicInit

Next ==
    \/ SolverNext \/ AtomicFlagsNext \/ FieldNext \/ IrqNext \/ AdcNext
    \/ WaitNext \/ SpiNext \/ IntNext \/ Int1TestNext \/ GPIOTestNext
    \/ EepromNext

Spec == Init /\ [][Next]_vars

(***************************************************************************)
(* The clock-divisor formulas as the specification states them             *)
(* (section 4.6), for comparison with the code.                            *)
(***************************************************************************)

\* N = (F + B*ticks/2) / (B*ticks) - 1, as a 16-bit divisor
SpecDivisor(F, B, ticks) ==
    Low16(Sub32(Div32(Add32(F, Mul32(B, ticks \div 2)), Mul32(B, ticks),
                      Zero32), FromNat(1)))

\* achieved rate F / (ticks * (N + 1))
SpecAchieved(F, ticks, N) == Quot32(F, FromNat(ticks * (N + 1)))

\* error in parts per thousand of divisor N in the mode with the given ticks;
\* an achieved rate of 0 counts as the largest error
SpecError(F, B, ticks, N) ==
    LET achieved == SpecAchieved(F, ticks, N)
    IN  IF achieved = Zero32 \/ B = Zero32 THEN Max32
        ELSE IF Lt32(B, achieved)
             THEN Sub32(Quot32(Mul32(achieved, 1000), B), FromNat(1000))
             ELSE Sub32(Quot32(Mul32(B, 1000), achieved), FromNat(1000))

\* the number of ticks per bit of the mode USART0::init selected
SelectedTicks == IF U2X0 THEN 8 ELSE 16

\* divisors 0 .. MaxCandidate are compared with the selected one
MaxCandidate == 255

Last(seq) == seq[Len(seq)]

\* n constructions followed by k destructions
Nest(n, k) == [i \in 1..(n + k) |-> IF i <= n THEN "ctor" ELSE "dtor"]

(***************************************************************************)
(* Claims.                                                                 *)
(***************************************************************************)

\* C1: for F = 16,000,000 and B = 115200, USART0::init selects the mode whose
\* relative error is lower, the divisors and errors being those of the
\* section 4.6 formulas, and writes that mode's divisor.
C1_SelectsLowerError115200 ==
    (usartInit /\ cpuClock = FromNat(16000000) /\ baudRate = FromNat(115200))
        => LET eS == SpecError(cpuClock, baudRate, 16,
                               SpecDivisor(cpuClock, baudRate, 16))
               eD == SpecError(cpuClock, baudRate, 8,
                               SpecDivisor(cpuClock, baudRate, 8))
           IN  /\ U2X0 = Lt32(eD, eS)
               /\ UBRR0 = SpecDivisor(cpuClock, baudRate, SelectedTicks)

\* C2: in both modes the divisor the solver computes is the theoretical
\* divisor rounded to the nearest integer, (F + B*ticks/2) / (B*ticks) - 1,
\* for ticks = 16 and ticks = 8, for every F and every B > 0.
C2_DivisorRoundsToNearest ==
    (usartInit /\ baudRate # Zero32)
        => /\ getUBRRValueSingleSpeed(cpuClock, baudRate, divZeroResult)
                  = SpecDivisor(cpuClock, baudRate, 16)
           /\ getUBRRValueDoubleSpeed(cpuClock, baudRate, divZeroResult)
                  = SpecDivisor(cpuClock, baudRate, 8)

\* C3: for F = 16,000,000 and B = 9600 the solver returns single-speed mode
\* with divisor 103.
C3_SingleSpeed103At9600 ==
    (usartInit /\ cpuClock = FromNat(16000000) /\ baudRate = FromNat(9600))
        => (U2X0 = FALSE /\ UBRR0 = 103)

C3_Witness ==
    /\ usartInit
    /\ cpuClock = FromNat(16000000)
    /\ baudRate = FromNat(9600)
    /\ UBRR0 = 103
    /\ ~ U2X0

\* C4: U2X is set iff the double-speed error is strictly less than the
\* single-speed error (equal errors select single speed), and UBRR holds the
\* divisor of the mode that U2X selects.
C4_FlagAndDivisorSameMode ==
    usartInit
        => /\ U2X0 = Lt32(getBaudRateErrorDoubleSpeed(cpuClock, baudRate,
                                                      divZeroResult),
                          getBaudRateErrorSingleSpeed(cpuClock, baudRate,
                                                      divZeroResult))
           /\ UBRR0 = IF U2X0
                      THEN getUBRRValueDoubleSpeed(cpuClock, baudRate,
                                                   divZeroResult)
                      ELSE getUBRRValueSingleSpeed(cpuClock, baudRate,
                                                   divZeroResult)

\* a tie of the two errors, resolved to single speed, with different divisors
C4_Witness ==
    /\ usartInit
    /\ ~ divZero
    /\ getBaudRateErrorDoubleSpeed(cpuClock, baudRate, divZeroResult)
           = getBaudRateErrorSingleSpeed(cpuClock, baudRate, divZeroResult)
    /\ getUBRRValueDoubleSpeed(cpuClock, baudRate, divZeroResult)
           # getUBRRValueSingleSpeed(cpuClock, baudRate, divZeroResult)
    /\ ~ U2X0
    /\ UBRR0 = getUBRRValueSingleSpeed(cpuClock, baudRate, divZeroResult)

\* C5: the (divisor, mode) pair written by USART0::init minimizes the
\* relative deviation: no divisor in either mode achieves a rate whose
\* per-mille error is strictly smaller.
C5_MinimizesDeviation ==
    (usartInit /\ ~ divZero)
        => \A ticks \in {8, 16}, N \in 0..MaxCandidate :
               ~ Lt32(SpecError(cpuClock, baudRate, ticks, N),
                      SpecError(cpuClock, baudRate, SelectedTicks, UBRR0))

\* C6: the solver has no failure outcome: for every (F, B), pathological
\* pairs included, the computation never divides by zero.
C6_NeverDividesByZero == usartInit => ~ divZero

\* C7: where the achieved rate is nonzero, the quotient from which 1000 is
\* subtracted is at least 1000, so the 32-bit subtraction does not wrap: the
\* error is below 2^32 - 1000.
C7_ErrorDoesNotWrap ==
    (/\ usartInit
     /\ ~ divZero
     /\ getRealBaudRateSingleSpeed(cpuClock, baudRate, divZeroResult) # Zero32
     /\ getRealBaudRateDoubleSpeed(cpuClock, baudRate, divZeroResult) # Zero32)
        => /\ Lt32(getBaudRateErrorSingleSpeed(cpuClock, baudRate,
                                               divZeroResult),
                   Sub32(Zero32, FromNat(1000)))
           /\ Lt32(getBaudRateErrorDoubleSpeed(cpuClock, baudRate,
                                               divZeroResult),
                   Sub32(Zero32, FromNat(1000)))

\* C8: after an Atomic object is destroyed, the I flag equals the value it
\* had immediately before that object was constructed, whatever was executed
\* inside the section (sei included) and at every nesting depth.
C8_DtorRestoresPriorFlag ==
    (history # <<>> /\ Last(history) = "dtor")
        => IFlag(SREG) = IFlag(lastBefore)

\* C9: starting with interrupts enabled, n nested constructions followed by
\* fewer than n destructions leave interrupts disabled, and the destruction
\* of the outermost object enables them again (n = 2: outer, inner, release
\* inner, release outer).
C9_NestedSections ==
    \A n \in 1..MaxDepth : \A k \in 0..n :
        (IFlag(SREG0) = 1 /\ history = Nest(n, k))
            => IFlag(SREG) = (IF k = n THEN 1 ELSE 0)

C9_Witness ==
    /\ IFlag(SREG0) = 1
    /\ history = <<"ctor", "ctor", "dtor", "dtor">>
    /\ atomics = <<>>
    /\ IFlag(SREG) = 1

\* C10: starting with interrupts disabled, constructing and destroying Atomic
\* objects with no sei inside leaves interrupts disabled: the destructor
\* never enables the I flag by itself.
C10_DisabledStaysDisabled ==
    (IFlag(SREG0) = 0 /\ (\A i \in 1..Len(history) : history[i] # "sei"))
        => IFlag(SREG) = 0

C10_Witness ==
    /\ IFlag(SREG0) = 0
    /\ history = <<"ctor", "dtor">>
    /\ IFlag(SREG) = 0

\* C12: constructing and destroying an Atomic object change no SREG bit other
\* than I: the other flags keep the value they have at that moment (the
\* destructor does not roll them back to their value at construction).
C12_OnlyIFlagChanges ==
    [][(history' # history /\ Last(history') \in {"ctor", "dtor"})
           => BitAnd8(SREG', 255 - BV_SREG_I) = BitAnd8(SREG, 255 - BV_SREG_I)]_vars

\* an object was destroyed while a flag other than I differs from its value at
\* the object's construction
C12_Witness ==
    /\ history # <<>>
    /\ Last(history) = "dtor"
    /\ BitAnd8(SREG, 255 - BV_SREG_I) # BitAnd8(lastBefore, 255 - BV_SREG_I)

\* C13: for every Timer1 waveform generation mode v (0..15), WGM::write(v)
\* followed by WGM::read() returns v.
C13_Timer1ModeRoundTrip ==
    (call.op = "Timer1::WGM::write" /\ call.rd = "Timer1::WGM::read")
        => call.result = call.arg

\* C14: for every Timer0 and Timer2 waveform generation mode v (0..7),
\* WGM::write(v) followed by WGM::read() returns v.
C14_Timer02ModeRoundTrip ==
    /\ (call.op = "Timer0::WGM::write" /\ call.rd = "Timer0::WGM::read")
           => call.result = call.arg
    /\ (call.op = "Timer2::WGM::write" /\ call.rd = "Timer2::WGM::read")
           => call.result = call.arg

\* a mode with the third bit set was written to Timer0 and read back while
\* the mode registers held other bits before
C14_Witness ==
    /\ call.op = "Timer0::WGM::write" /\ call.rd = "Timer0::WGM::read"
    /\ call.arg = 6
    /\ call.before["TCCR0A"] = 255 /\ call.before["TCCR0B"] = 0

\* the registers r and s agree in every bit outside mask (for the register
\* reg) and in every bit of the other registers
SameOutside(r, s, reg, mask) ==
    \A x \in Registers :
        IF x = reg THEN BitAnd8(r[x], 255 - mask) = BitAnd8(s[x], 255 - mask)
                   ELSE r[x] = s[x]

\* the register a GPIOPin / GPIOSubPort method writes
GPIOTarget(op) ==
    IF op \in {"GPIOPin::setAsInput", "GPIOPin::setAsOutput",
               "GPIOSubPort::setAsInput", "GPIOSubPort::setAsOutput"}
    THEN "DDRB" ELSE "PORTB"

\* the bit a GPIOPin method writes
GPIOPinValue(c) ==
    CASE c.op = "GPIOPin::write" -> c.flag
      [] c.op \in {"GPIOPin::setAsOutput", "GPIOPin::high"} -> TRUE
      [] OTHER -> FALSE

\* C15: for every bit index i in 0..7 and every prior register content, after
\* the bit i was written true (false) the bit reads true (false), and the
\* seven other bits of the register are unchanged (GPIOPin::setAsOutput,
\* setAsInput, high, low, write).
C15_BitWriteReadBack ==
    call.op \in GPIOPinWrites
        => /\ BitInRegister_read(io[GPIOTarget(call.op)], call.first)
                  = GPIOPinValue(call)
           /\ SameOutside(io, call.before, GPIOTarget(call.op), 2^call.first)

\* bit 5 of a port register holding 0xFF was written false
C15_Witness ==
    /\ call.op = "GPIOPin::write" /\ call.flag = FALSE /\ call.first = 5
    /\ call.before["PORTB"] = 255 /\ io["PORTB"] = 223

\* C16: for every field of bits [low, high] of UCSR0C, every value v
\* representable in high-low+1 bits and every prior register content, write(v)
\* followed by read() returns v, and every register bit outside [low, high]
\* has its value from before the write.
C16_GroupWriteReadBack ==
    call.op \in DOMAIN UCSR0C_Fields
        => /\ SameOutside(io, call.before, "UCSR0C", Mask(call.first, call.last))
           /\ call.rd = "read" => call.result = call.arg

\* the parity field (bits 4..5) of a register holding 0xFF was written 0b10
\* and read back
C16_Witness ==
    /\ call.op = "UPM" /\ call.rd = "read" /\ call.arg = 2
    /\ call.before["UCSR0C"] = 255 /\ io["UCSR0C"] = 239

\* C19: GPIOSubPort<port, first, last>::setAsInput(), setAsOutput() and
\* write(value), for any 8-bit value, change only the bits first..last of DDR
\* (respectively PORT), and read() returns the PIN bits first..last shifted
\* down to bit 0.
C19_SubPortFrame ==
    call.op \in GPIOSubPortWrites
        => /\ SameOutside(io, call.before, GPIOTarget(call.op),
                          Mask(call.first, call.last))
           /\ call.rd = "GPIOSubPort::read"
                  => call.result = BitAnd8(io["PINB"],
                                           Mask(call.first, call.last))
                                       \div 2^call.first

\* the positions of the main program from the end of the constructor of the
\* Atomic object to the start of its destructor
InSection == {"read", "write", "dtor"}

\* C11: a read-modify-write of a register field between the construction and
\* the destruction of an Atomic object is never interleaved with an interrupt
\* handler: the I flag is 0 from the end of the constructor to the start of
\* the destructor, no handler runs between the register read and the
\* write-back, and no handler update of the register is lost.
C11_SectionNotInterleaved ==
    call.flag
        => /\ pc.at \in InSection => IFlag(SREG) = 0
           /\ isr.op = "write" => isr.at.at \notin InSection
           /\ seen.op = "read" => seen.at.at \notin InSection
           /\ pc.at \in {"dtor", "done"} => io = shadow

\* with interrupts enabled, a handler ran while the constructor was executed,
\* and its update is in the register after the section
C11_Witness ==
    /\ call.flag /\ call.op = "USART0::startTransmission"
    /\ IFlag(SREG0) = 1
    /\ pc.at = "done"
    /\ isr.op = "write" /\ isr.at.at = "cli" /\ isr.bit = TXCIE0 /\ isr.value
    /\ call.before["UCSR0B"] = 152
    /\ io["UCSR0B"] = 248

\* C17: without an Atomic section, an interrupt handler can modify a register
\* between the read and the write-back of a set() / clear() of the main
\* program on that register (USART0::startTransmission / stopTransmission on
\* UCSR0B); after the write-back of the main program the bit the handler
\* wrote has the value the main program read, and the bit of the main
\* program is written.
C17_LostUpdate ==
    (/\ ~call.flag
     /\ call.op \in {"USART0::startTransmission", "USART0::stopTransmission"}
     /\ pc.at = "done"
     /\ isr.op = "write" /\ isr.at.at = "write" /\ isr.bit # UDRIE0)
        => /\ BitInRegister_read(io["UCSR0B"], isr.bit)
                  = BitInRegister_read(tmp, isr.bit)
           /\ BitInRegister_read(io["UCSR0B"], UDRIE0)
                  = (call.op = "USART0::startTransmission")

\* a handler set TXCIE0 between the read and the write-back of
\* startTransmission, and the bit is clear after the write-back
C17_Witness ==
    /\ ~call.flag /\ call.op = "USART0::startTransmission"
    /\ pc.at = "done"
    /\ isr.op = "write" /\ isr.at.at = "write" /\ isr.bit = TXCIE0 /\ isr.value
    /\ call.before["UCSR0B"] = 152
    /\ io["UCSR0B"] = 184
    /\ shadow["UCSR0B"] = 248

\* C18: Timer0::WGM::write always writes TCCR0A (the two low mode bits) first
\* and TCCR0B (the third mode bit) second, and a handler that runs between
\* the two writes reads the low bits of the new mode with the third bit of
\* the old mode, which can be neither the old nor the new mode.
C18_CompositeWriteOrder ==
    call.op = "Timer0::WGM::write"
        => /\ (pc.at \in {"read", "write"} /\ pc.k = 1)
                  => /\ io["TCCR0A"] = call.before["TCCR0A"]
                     /\ io["TCCR0B"] = call.before["TCCR0B"]
           /\ pc.k = 2
                  => /\ BitGroupInRegister_read(io["TCCR0A"], WGM00, WGM01)
                            = BitAnd8(call.arg, 3)
                     /\ io["TCCR0B"] = call.before["TCCR0B"]
           /\ pc.at = "done" => Timer0_WGM_read(io) = call.arg
           /\ (seen.op = "read" /\ seen.at.k = 2)
                  => seen.mode
                         = BitOr8(BitAnd8(call.arg, 3),
                                  BitAnd8(Timer0_WGM_read(call.before), 4))

\* the mode is changed from 0b011 to 0b100 and a handler between the two
\* writes reads 0b000
C18_Witness ==
    /\ ~call.flag /\ call.op = "Timer0::WGM::write" /\ call.arg = 4
    /\ Timer0_WGM_read(call.before) = 3
    /\ seen.op = "read" /\ seen.at.k = 2 /\ seen.mode = 0

\* C20: ADConverter::Pin<ch>::startConversion() waits until the converter is
\* ready: it neither changes the channel selection nor sets ADSC while a
\* conversion started before is in progress (ADSC = 1).
C20_StartWaitsForReady ==
    call.op = "ADConverter::Pin::startConversion"
        => /\ ~ADConverter_wait_busy(call.before)
           /\ call.rd = "ADConverter::startConversion" => ~call.bit

\* C28: ADConverter::Pin<ch>::startConversion() writes ch into MUX3..MUX0 of
\* ADMUX before it sets ADSC, so when ADSC becomes 1 through the call the MUX
\* field holds ch; the call leaves REFS1..REFS0 and ADLAR of ADMUX and every
\* bit of ADCSRA other than ADSC unchanged.
C28_ChannelBeforeStart ==
    call.op = "ADConverter::Pin::startConversion"
        => /\ BitGroupInRegister_read(io["ADMUX"], MUX0, MUX3) = call.arg
           /\ BitAnd8(io["ADMUX"], 255 - Mask(MUX0, MUX3))
                  = BitAnd8(call.before["ADMUX"], 255 - Mask(MUX0, MUX3))
           /\ BitAnd8(io["ADCSRA"], 255 - 2^ADSC)
                  = BitAnd8(call.before["ADCSRA"], 255 - 2^ADSC)
           /\ (pc.at = "start" /\ ADConverter_wait_busy(io))
                  => ADConverter_wait_busy(call.before)

\* channel 8 was selected after channel 3 and the conversion was started
C28_Witness ==
    /\ call.op = "ADConverter::Pin::startConversion" /\ call.arg = 8
    /\ call.rd = "ADConverter::startConversion"
    /\ ADConverter_wait_busy(io)
    /\ call.before["ADMUX"] = 99
    /\ io["ADMUX"] = 104

\* C26: Timer1's WGM::write(v) changes only the bits WGM10, WGM11 of TCCR1A
\* and WGM12, WGM13 of TCCR1B, for every v in 0..15 and every prior content
\* of the registers; every other bit keeps its value, so that Timer1::init
\* leaves exactly the four requested fields set.
C26_Timer1ModeFrame ==
    /\ call.op = "Timer1::WGM::write"
           => \A x \in Registers :
                  CASE x = "TCCR1A" ->
                           BitAnd8(io[x], 255 - Mask(WGM10, WGM11))
                               = BitAnd8(call.before[x],
                                         255 - Mask(WGM10, WGM11))
                    [] x = "TCCR1B" ->
                           BitAnd8(io[x], 255 - Mask(WGM12, WGM13))
                               = BitAnd8(call.before[x],
                                         255 - Mask(WGM12, WGM13))
                    [] OTHER -> io[x] = call.before[x]
    /\ call.op = "Timer1::init"
           => /\ Timer1_WGM_read(io) = InitArgWGM(call.arg)
              /\ BitGroupInRegister_read(io["TCCR1B"], CS10, CS12)
                     = InitArgCS(call.arg)
              /\ BitGroupInRegister_read(io["TCCR1A"], COM1A0, COM1A1)
                     = InitArgCOMA(call.arg)
              /\ BitGroupInRegister_read(io["TCCR1A"], COM1B0, COM1B1)
                     = InitArgCOMB(call.arg)

\* C21: ADConverter::wait() and SPI::wait() eventually return, provided the
\* hardware eventually clears ADSC or sets SPIF, and they return only after
\* a read that observed the awaited value of the bit (ADSC = 0, SPIF = 1).
C21_WaitReturns ==
    /\ (pc.at = "wait") ~> (pc = Idle)
    /\ (pc.at = "SPI::wait") ~> (pc = Idle)
    /\ [](waited.op = "ADConverter::wait" => ~waited.bit)
    /\ [](waited.op = "SPI::wait" => waited.bit)
    /\ [][(pc.at = "wait" /\ pc' = Idle)
              => ~BitInRegister_read(tmp', ADSC)]_vars
    /\ [][(pc.at = "SPI::wait" /\ pc' = Idle)
              => BitInRegister_read(tmp', SPIF)]_vars

\* SPI::wait() has returned after two polls that read SPIF = 0 and one that
\* read SPIF = 1, with no conversion in progress
C21_Witness ==
    /\ waited.op = "SPI::wait" /\ waited.polls >= 2
    /\ pc = Idle
    /\ ~BitInRegister_read(io["ADCSRA"], ADSC)
    /\ BitInRegister_read(tmp, SPIF)

\* C22: the waits have no timeout: while the status bit does not change,
\* wait() does not return, after any number of iterations, and the loop
\* writes no register.
C22_NoTimeout ==
    /\ [][(pc.at = "wait" /\ BitInRegister_read(io["ADCSRA"], ADSC))
              => (pc'.at = "wait" /\ io' = io)]_vars
    /\ [][(pc.at = "SPI::wait" /\ ~BitInRegister_read(io["SPSR"], SPIF))
              => (pc'.at = "SPI::wait" /\ io' = io)]_vars

\* ADConverter::wait() has polled MaxPolls times and is still in its loop
C22_Witness ==
    /\ pc.at = "wait" /\ pc.k = MaxPolls
    /\ BitInRegister_read(io["ADCSRA"], ADSC)
    /\ tmp = io["ADCSRA"]

\* C27: after SPI::setClockRate(r) the bits SPR1..SPR0 of SPCR hold the two
\* low bits of r and SPI2X of SPSR holds bit 2 of r, for every enumerator of
\* ClockRate; all other bits of SPCR and of SPSR are unchanged; SPCR is
\* written before SPSR.
C27_ClockRateSplit ==
    /\ [][(pc = Idle /\ pc'.at = "setClockRate")
              => /\ BitGroupInRegister_read(io'["SPCR"], SPR0, SPR1)
                        = call'.arg % 4
                 /\ SameOutside(io', io, "SPCR", Mask(SPR0, SPR1))]_vars
    /\ [][(pc.at = "setClockRate" /\ pc' = Idle)
              => /\ BitInRegister_read(io'["SPSR"], SPI2X)
                        = ((call.arg \div 4) % 2 = 1)
                 /\ BitGroupInRegister_read(io'["SPCR"], SPR0, SPR1)
                        = call.arg % 4
                 /\ SameOutside(io', io, "SPSR", 2^SPI2X)]_vars

\* setClockRate(FOSC_8) has returned: SPCR went from 0b01010011 to
\* 0b01010001 and SPI2X is set, with SPIF set by the hardware before
C27_Witness ==
    /\ call.op = "SPI::setClockRate" /\ call.arg = 5 /\ pc = Idle
    /\ call.before["SPCR"] = 83 /\ io["SPCR"] = 81
    /\ call.before["SPSR"] = 128 /\ io["SPSR"] = 129

\* a step in which the program calls read() on a register
ReadStep == lastRead'.n # lastRead.n

\* C25: reading is idempotent and free of side effects: repeated read() on a
\* register that was not written returns the same value, and read() changes
\* no register state; this includes the reads of SPSR and SPDR in
\* SPI::initSlaveMode and SPI::receive.
C25_ReadsChangeNothing ==
    [][ReadStep
           => /\ io' = io
              /\ lastRead'.reg = lastRead.reg
                     => lastRead'.value = lastRead.value]_vars

\* C25 (amended): read() returns the content of the register and writes no
\* register; repeated read() on a register that was not written returns the
\* same value.  The only change a read causes is made by the hardware: a
\* read of SPDR that follows a read of SPSR with SPIF set clears SPIF, which
\* is what the reads in SPI::initSlaveMode are for; every other bit of every
\* register keeps its value.
C25_ReadsOnlyClearSPIF ==
    [][ReadStep
           => /\ lastRead'.value = io[lastRead'.reg]
              /\ SameOutside(io', io, "SPSR", 2^SPIF)
              /\ io' # io
                     => /\ lastRead'.reg = "SPDR" /\ spi
                        /\ ~BitInRegister_read(io'["SPSR"], SPIF)
              /\ lastRead'.reg = lastRead.reg
                     => lastRead'.value = lastRead.value]_vars

\* SPI::initSlaveMode has returned; its reads of SPSR and SPDR cleared the
\* SPIF that was set before the call
C25_Witness ==
    /\ call.op = "SPI::initSlaveMode" /\ pc = Idle
    /\ BitInRegister_read(call.before["SPSR"], SPIF)
    /\ ~BitInRegister_read(io["SPSR"], SPIF)
    /\ lastRead.reg = "SPDR" /\ ~spi

\* the registers r and s differ at most in the bits of Int0 (ISC01..ISC00,
\* INT0, DDRD bit 2) or of Int1 (ISC11..ISC10, INT1, DDRD bit 3)
SameOutsideInt(r, s, isc, int, pin) ==
    \A x \in Registers :
        LET mask == CASE x = "EICRA" -> isc
                      [] x = "EIMSK" -> int
                      [] x = "DDRD" -> pin
                      [] OTHER -> 0
        IN  BitAnd8(r[x], 255 - mask) = BitAnd8(s[x], 255 - mask)

\* C30: Int0 and Int1 are independent although they share EICRA, EIMSK and
\* DDRD: init, enableInterrupt and disableInterrupt of Int0 change only
\* ISC01..ISC00, INT0 and bit 2 of DDRD, those of Int1 only ISC11..ISC10,
\* INT1 and bit 3 of DDRD; Int0::init(a, e0) and Int1::init(b, e1) give the
\* same registers in either order.
C30_IndependentInterrupts ==
    /\ call.op \in Int0Methods
           => SameOutsideInt(io, call.before, Mask(ISC00, ISC01), 2^INT0,
                             2^Int0_Pin)
    /\ call.op \in Int1Methods
           => SameOutsideInt(io, call.before, Mask(ISC10, ISC11), 2^INT1,
                             2^Int1_Pin)
    /\ (/\ Len(history) = 2
        /\ {history[1][1], history[2][1]} = {"Int0::init", "Int1::init"})
           => io = Int_method(history[1][1],
                              Int_method(history[2][1], shadow,
                                         history[2][2], history[2][3]),
                              history[1][2], history[1][3])

\* Int1::init(FALLING_EDGE, true), then Int0::init(PIN_CHANGE, false), from
\* registers with all bits set
C30_Witness ==
    /\ history = <<<<"Int1::init", 2, TRUE>>, <<"Int0::init", 1, FALSE>>>>
    /\ shadow["EICRA"] = 255
    /\ io["EICRA"] = 249 /\ io["EIMSK"] = 254 /\ io["DDRD"] = 243

\* C24: in test/Int1 pin PD0 is low from its initialization until the first
\* INT1 interrupt; every invocation of the handler inverts PD0 (after the
\* k-th invocation PD0 is high iff k is odd) and no other bit of PORTD
\* changes; the handler runs only after sei().
C24_Int1TogglesPD0 ==
    pc.at = "Int1Test"
        => /\ (pc.k >= 2 /\ irqs = 0)
                  => ~BitInRegister_read(io["PORTD"], Int1Test_OutputPin)
           /\ irqs >= 1
                  => (BitInRegister_read(io["PORTD"], Int1Test_OutputPin)
                          <=> irqs % 2 = 1)
           /\ BitAnd8(io["PORTD"], 255 - 2^Int1Test_OutputPin)
                  = BitAnd8(shadow["PORTD"], 255 - 2^Int1Test_OutputPin)
           /\ irqs >= 1 => pc.k = 4

\* the handler has run three times; PD0 is high and the other pins of port D
\* are as at the start
C24_Witness ==
    /\ pc.at = "Int1Test" /\ irqs = 3
    /\ shadow["PORTD"] = 165
    /\ io["PORTD"] = 165
    /\ ~pinState

\* C23: in test/GPIO, after the directions are set up, every iteration of
\* the loop makes PORTB equal to PIND, bits 0..1 of PORTC equal to bits 2..3
\* of PINC and bit 4 of PORTC equal to bit 5 of PINC, the inputs as sampled
\* in that iteration; none of the three writes changes a pin written by
\* another of them, or the direction bits set up before the loop.
C23_LoopForwardsInputs ==
    /\ [][(pc.at = "GPIOTest" /\ pc'.at = "GPIOTest" /\ pc'.k = pc.k + 1)
              => /\ pc.k = 6 => tmp' = io["PIND"]
                 /\ pc.k = 8 => tmp' = (io["PINC"] \div 4) % 4
                 /\ pc.k = 10 => tmp' = (io["PINC"] \div 32) % 2
                 /\ pc.k = 7 => io'["PORTB"] = tmp
                 /\ pc.k = 9 => io'["PORTC"] % 4 = tmp]_vars
    /\ [][(pc = [at |-> "GPIOTest", k |-> 11] /\ pc' # pc)
              => (io'["PORTC"] \div 16) % 2 = tmp]_vars
    /\ [](pc.at = "GPIOTest"
              => /\ sampled.done >= 1 => io["PORTB"] = sampled.port
                 /\ sampled.done >= 2 => io["PORTC"] % 4 = sampled.subPort
                 /\ sampled.done >= 3
                        => ((io["PORTC"] \div 16) % 2 = 1) = sampled.pin
                 /\ pc.k >= 6
                        => /\ io["DDRB"] = shadow["DDRB"]
                           /\ io["DDRC"] = shadow["DDRC"]
                           /\ io["DDRD"] = shadow["DDRD"]
                           /\ BitAnd8(io["PORTC"], 255 - 19)
                                  = BitAnd8(shadow["PORTC"], 255 - 19)
                           /\ io["PORTD"] = shadow["PORTD"])

\* the loop has run more than once: PORTB = 165, bits 0..1 of PORTC hold
\* 0b10 and bit 4 is set (from PINC = 40), the other bits of PORTC are set as
\* at the start, and the inputs have changed since
C23_Witness ==
    /\ pc = [at |-> "GPIOTest", k |-> 8]
    /\ sampled = [port |-> 165, subPort |-> 2, pin |-> TRUE, done |-> 3]
    /\ io["PORTB"] = 165 /\ io["PORTC"] = 254
    /\ io["PINC"] = 215 /\ io["PIND"] = 0

\* C29: every access of the EEPROM by position stays inside the buffer of
\* 1024 bytes: the byte read and write reduce any 16-bit pos modulo 1024
\* (after write(pos, d), read(pos) returns d), and the block read and write
\* with pos in 0..1023 and nofBytes in 1..1024 access no byte beyond offset
\* 1023 of the buffer.
C29_AccessInsideBuffer ==
    /\ eeAccess.op \in {"write", "read"}
           => /\ eeAccess.first = eeAccess.pos % 1024
              /\ eeAccess.last = eeAccess.first
              /\ eeAccess.first \in 0 .. 1023
    /\ (eeAccess.op = "read" /\ eeAccess.written # -1)
           => eeAccess.result = eeAccess.written
    /\ (/\ eeAccess.op \in {"write block", "read block"}
        /\ eeAccess.pos \in 0 .. 1023
        /\ eeAccess.nofBytes \in 1 .. 1024)
           => eeAccess.last <= 1023

====
